---- MODULE Spec2Model ----
(***************************************************************************)
(* Token lifecycle engine of monitor/GX_Scan.py: the main loop of          *)
(* TokenTrackerMain (historical scan, rescan sweep, discovery poll), the   *)
(* classification pass TokenChecker.process_token with its failure path,   *)
(* the honeypot move check_and_move_honeypot, and the three tables of      *)
(* scan_records.db (scan_records, HONEYPOTS, xHoneypot_removed).           *)
(*                                                                         *)
(* Abstractions: a token address is a small integer; the honeypot report   *)
(* is reduced to the fields the lifecycle reads (honeypotResult.isHoneypot,*)
(* pair.createdAtTimestamp as an age in whole hours, pair.liquidity); the  *)
(* GoPlus report is reduced to one flag; wall-clock time is a counter that *)
(* advances by one per classification pass (every pass sleeps 5 s before   *)
(* its provider calls, timestamps have a 1 s resolution).                  *)
(*                                                                         *)
(* The module also holds the shared InfuraKeyManager of key_manager.py     *)
(* with the two RPC callers of SPXfucked.py (KeySpec), and the APITracker  *)
(* of api_tracker.py as api_wrapper.py drives it (TrackerSpec).  Spec and  *)
(* SessionSpec leave those parts idle; KeySpec and TrackerSpec leave the   *)
(* store and the main loop idle.                                           *)
(*                                                                         *)
(* The main loop is further run over records at the failure limit with a   *)
(* configured limit (FailureSpec), with stop(), cancellation and provider  *)
(* calls that never complete (InterruptSpec, FairInterruptSpec), and with  *)
(* move_token_to_removed applied between passes (RemovalSpec).             *)
(*                                                                         *)
(* Further specifications: reports that differ from the stored row in      *)
(* every field (RefreshSpec); passes whose two provider calls go through   *)
(* the tracker (StatsSpec); sweeps over two active records, with the       *)
(* fairness of a loop left to run (SweepSpec, FairSweepSpec); the key      *)
(* manager called directly, initialize() included (PoolSpec); and the      *)
(* DatabaseManager of db_manager.py with its rescan query (ManagerSpec).   *)
(***************************************************************************)
EXTENDS Integers, Sequences, FiniteSets, TLC

\* ----------------------------------------------------------------- bounds
NumTokens == 2
MaxPasses == 2
MaxKeys == 3
MaxTime == 3
MaxAttempts == 3
MaxCalls == 2

\* ------------------------------------------------------ program constants
honeypot_failure_limit == 5
HoneypotAgeLimit == 1
\* TOKEN_KICK_CONDITIONS
MAX_AGE_HOURS == 1
MIN_LIQUIDITY == 10000

Tokens == 1..NumTokens
\* Python None / SQL NULL is the empty tuple, a present value v is <<v>>.
None == <<>>
Some(v) == <<v>>
\* the {} a failed provider call degrades to
Empty == [empty |-> TRUE]

Milestones == {10 * k : k \in 1..20}

\* pair.createdAtTimestamp as the provider sends it: absent, or a timestamp
\* one or two hours before the pass.
CreatedAt == {"", "1h", "2h"}
Liquidities == {7}

\* What the honeypot provider call hands to process_token: {} or a report.
HpReports == [isHoneypot : {"true", "false", "missing"},
              createdAtTimestamp : CreatedAt,
              liquidity : Liquidities]
HpResults == {Empty} \cup HpReports

\* What the GoPlus provider call hands to process_token: {} , a result the
\* display code can format, or a result with a non-numeric field.
GpResults == {"empty", "ok", "bad"}

\* Statement of the pass at which the store raises sqlite3.Error.
Faults == {"none", "persist", "update", "insert", "delete"}

PairOf(t) == 100 + t

VARIABLES scan_records, HONEYPOTS, xHoneypot_removed, token_tables,
          process_semaphore, scanning, pc, iter_due, rescan_tokens, events,
          clock, last, passes, okSince, config,
          running, session, hung,
          key_manager, web3, factory_contract, rpc, time_now, key_call,
          call_counter, calls_by_endpoint, last_call,
          manager_records, rescan_query

\* the store, the main loop and its history variables
passVars == <<scan_records, HONEYPOTS, xHoneypot_removed, token_tables,
              process_semaphore, scanning, pc, iter_due, rescan_tokens, events,
              clock, last, passes, okSince, config, running, session, hung>>
\* the shared InfuraKeyManager, the TokenTracker's provider and RPC call
keyVars == <<key_manager, web3, factory_contract, rpc, time_now, key_call>>
\* the APITracker
trackerVars == <<call_counter, calls_by_endpoint, last_call>>

\* the DatabaseManager's own table and its last rescan query
managerVars == <<manager_records, rescan_query>>

vars == <<passVars, keyVars, trackerVars, managerVars>>

\* ------------------------------------------------------------ table helpers
EmptyTable == [x \in {} |-> 0]
Put(f, k, v) == [x \in (DOMAIN f) \cup {k} |-> IF x = k THEN v ELSE f[x]]
Del(f, k) == [x \in (DOMAIN f) \ {k} |-> f[x]]

\* token_tables[t] is the number of rows of the token-specific table of t,
\* which process_token appends to in the transaction of the main row
\* selected is the active row fetched by the SELECT of a move to a removal
\* table, once the move has been committed
Store == [scan_records |-> scan_records, HONEYPOTS |-> HONEYPOTS,
          xHoneypot_removed |-> xHoneypot_removed, token_tables |-> token_tables,
          selected |-> None]

NoLiq == [m \in Milestones |-> None]

\* with sqlite3.connect(db_path) as db: an exception inside the block rolls
\* the open transaction back, so the store is what it was before the block.
RollbackNone(before, partial) == partial
Rollback(before, partial) == before

\* ---------------------------------------------------------- process_token
\* token_age_hours (lines 1108-1120): None unless createdAtTimestamp is
\* present and is digits or a '%Y-%m-%d %H:%M:%S' date
TokenAgeHoursDefaultsOld(hp) ==
    CASE hp.createdAtTimestamp = "1h" -> Some(1)
      [] OTHER -> Some(2)
TokenAgeHours(hp) ==
    CASE hp.createdAtTimestamp = "1h" -> Some(1)
      [] hp.createdAtTimestamp = "2h" -> Some(2)
      [] OTHER -> None

\* bool(honeypot_result.get('isHoneypot', True)) (lines 1167, 1379)
IsHoneypot(hp) == hp.isHoneypot # "false"

\* total_scans = (result[0] + 1) if result else 1 (line 1135)
NextTotalScansSame(db, t) ==
    IF t \in DOMAIN db.scan_records THEN db.scan_records[t].total_scans ELSE 1
NextTotalScans(db, t) ==
    IF t \in DOMAIN db.scan_records THEN db.scan_records[t].total_scans + 1 ELSE 1

\* honeypot_failures = result[1] if result else 0 (line 1136)
CarriedFailuresReset(db, t) == 0
CarriedFailures(db, t) ==
    IF t \in DOMAIN db.scan_records THEN db.scan_records[t].honeypot_failures ELSE 0

\* liquidity ladder (lines 1188-1213); the multiplier is
\* getattr(self.config, 'liquidity_multiplier', 1) on a TokenTrackerConfig,
\* which has no such attribute.
liquidity_multiplier == 1
LiquidityValuesRunning(db, t, total_scans, current_liquidity) ==
    LET previous_values == IF t \in DOMAIN db.scan_records
                           THEN db.scan_records[t].liq ELSE NoLiq
        update_field == 10 * (total_scans \div 10)
    IN  [m \in Milestones |->
            IF update_field # 0 /\ m = update_field
            THEN Some(current_liquidity) ELSE previous_values[m]]
LiquidityValues(db, t, total_scans, current_liquidity) ==
    LET previous_values == IF t \in DOMAIN db.scan_records
                           THEN db.scan_records[t].liq ELSE NoLiq
        update_field == IF total_scans % liquidity_multiplier = 0
                        THEN total_scans ELSE 0
    IN  [m \in Milestones |->
            IF update_field # 0 /\ m = update_field
            THEN Some(current_liquidity) ELSE previous_values[m]]

\* the status and last_error a persist writes: values = ... + [total_scans,
\* honeypot_failures, '', 'active'] + liquidity_values (line 1216); the
\* DEFAULT 'new' of the column (line 160) is never used
PersistedStatusNewFirst(db, t) ==
    IF t \in DOMAIN db.scan_records THEN "active" ELSE "new"
PersistedStatus(db, t) == "active"
PersistedLastErrorKept(db, t) ==
    IF t \in DOMAIN db.scan_records THEN db.scan_records[t].last_error ELSE ""
PersistedLastError(db, t) == ""

\* dict.get(key, default)
Get(d, key, default) == IF key \in DOMAIN d THEN d[key] ELSE default

\* the row written by INSERT OR REPLACE INTO scan_records (lines 1147-1216):
\* every report column is bound to a value computed from this pass's reports
MergedRowKeepsStored(db, t, pair, hp, gp, now) ==
    LET total_scans == NextTotalScans(db, t)
        stored(field, fresh, blank) ==
            IF fresh = blank /\ t \in DOMAIN db.scan_records
            THEN db.scan_records[t][field] ELSE fresh
    IN  [pair_address |-> pair,
         scan_timestamp |-> now,
         token_age_hours |-> stored("token_age_hours", TokenAgeHours(hp), None),
         hp_is_honeypot |-> IsHoneypot(hp),
         hp_liquidity_amount |-> hp.liquidity,
         hp_creation_time |-> stored("hp_creation_time", hp.createdAtTimestamp, ""),
         hp_honeypot_reason |-> stored("hp_honeypot_reason", Get(hp, "honeypotReason", ""), ""),
         hp_is_open_source |-> Get(hp, "openSource", FALSE),
         hp_is_proxy |-> Get(hp, "isProxy", FALSE),
         hp_is_mintable |-> Get(hp, "isMintable", FALSE),
         gp_is_open_source |-> stored("gp_is_open_source", gp = "ok", FALSE),
         total_scans |-> total_scans,
         honeypot_failures |-> CarriedFailures(db, t),
         last_error |-> PersistedLastError(db, t),
         status |-> PersistedStatus(db, t),
         liq |-> LiquidityValues(db, t, total_scans, hp.liquidity)]
MergedRow(db, t, pair, hp, gp, now) ==
    LET total_scans == NextTotalScans(db, t)
    IN  [pair_address |-> pair,
         scan_timestamp |-> now,
         token_age_hours |-> TokenAgeHours(hp),
         hp_is_honeypot |-> IsHoneypot(hp),
         hp_liquidity_amount |-> hp.liquidity,
         hp_creation_time |-> hp.createdAtTimestamp,
         hp_honeypot_reason |-> Get(hp, "honeypotReason", ""),
         hp_is_open_source |-> Get(hp, "openSource", FALSE),
         hp_is_proxy |-> Get(hp, "isProxy", FALSE),
         hp_is_mintable |-> Get(hp, "isMintable", FALSE),
         gp_is_open_source |-> (gp = "ok"),
         total_scans |-> total_scans,
         honeypot_failures |-> CarriedFailures(db, t),
         last_error |-> PersistedLastError(db, t),
         status |-> PersistedStatus(db, t),
         liq |-> LiquidityValues(db, t, total_scans, hp.liquidity)]

\* the 26 columns copied to a removal table (lines 1975-2002, 1511-1538)
RemovalRow(row, reason, now) ==
    [removal_timestamp |-> now,
     original_scan_timestamp |-> row.scan_timestamp,
     token_pair_address |-> row.pair_address,
     token_age_hours |-> row.token_age_hours,
     hp_liquidity_amount |-> row.hp_liquidity_amount,
     hp_creation_time |-> row.hp_creation_time,
     hp_is_honeypot |-> row.hp_is_honeypot,
     hp_honeypot_reason |-> row.hp_honeypot_reason,
     total_scans |-> row.total_scans,
     honeypot_failures |-> row.honeypot_failures,
     last_error |-> row.last_error,
     removal_reason |-> reason]

\* INSERT INTO <table> ...; DELETE FROM scan_records ...; commit, inside one
\* connection block.  token_address is the PRIMARY KEY of both removal
\* tables, so the INSERT raises when the address is already there.
\* before: the store when the block was entered; cur: the store as the
\* block's earlier statements left it.
MoveRows(before, cur, table, t, reason, now, fault) ==
    LET s1 == [cur EXCEPT ![table] = Put(@, t, RemovalRow(cur.scan_records[t], reason, now)),
                          !.selected = Some(cur.scan_records[t])]
        s2 == [s1 EXCEPT !.scan_records = Del(@, t)]
    IN  IF t \in DOMAIN cur[table] \/ fault = "insert" THEN Rollback(before, cur)
        ELSE IF fault = "delete" THEN Rollback(before, s1)
        ELSE s2

\* the first 24 columns of scan_records in the order of its CREATE TABLE
\* (lines 79-103), which is the order of the fields of SELECT *
ScanRecordsColumns ==
    <<"token_address", "scan_timestamp", "pair_address", "token_name",
      "token_symbol", "token_decimals", "token_total_supply", "token_age_hours",
      "hp_simulation_success", "hp_buy_tax", "hp_sell_tax", "hp_transfer_tax",
      "hp_liquidity_amount", "hp_pair_reserves0", "hp_pair_reserves1",
      "hp_buy_gas_used", "hp_sell_gas_used", "hp_creation_time",
      "hp_holder_count", "hp_is_honeypot", "hp_honeypot_reason",
      "hp_is_open_source", "hp_is_proxy", "hp_is_mintable">>

\* a Python bool bound to a column of INTEGER affinity, and to one of TEXT
\* affinity
SqlInteger(b) == IF b THEN 1 ELSE 0
SqlText(b) == IF b THEN "1" ELSE "0"

\* the row move_token_to_removed inserts (lines 831-887): token_data is the
\* tuple of SELECT * FROM scan_records, read by position
MoveTokenToRemovedRow(row, reason, now) ==
    LET token_data(i) == row[ScanRecordsColumns[i + 1]]
    IN  [removal_timestamp |-> now,
         original_scan_timestamp |-> token_data(1),
         token_pair_address |-> token_data(2),
         token_age_hours |-> token_data(7),
         hp_liquidity_amount |-> token_data(12),
         hp_creation_time |-> token_data(17),
         hp_is_honeypot |-> token_data(19),
         hp_honeypot_reason |-> token_data(20),
         total_scans |-> SqlInteger(token_data(21)),
         honeypot_failures |-> SqlInteger(token_data(22)),
         last_error |-> SqlText(token_data(23)),
         removal_reason |-> reason]

\* check_token_conditions (lines 811-816); nothing calls it, nor
\* move_token_to_removed (lines 818-891)
CheckTokenConditions(token_age_hours, liquidity) ==
    token_age_hours > MAX_AGE_HOURS /\ liquidity < MIN_LIQUIDITY

\* if token_age_hours > 1.0 and is_honeypot (line 1907)
ShouldMoveHoneypotAtLimit(token_age_hours, is_honeypot) ==
    token_age_hours[1] >= HoneypotAgeLimit /\ is_honeypot
ShouldMoveHoneypot(token_age_hours, is_honeypot) ==
    token_age_hours[1] > HoneypotAgeLimit /\ is_honeypot

\* check_and_move_honeypot (lines 1905-2014): the store afterwards
CheckAndMoveHoneypot(db, t, token_age_hours, is_honeypot, now, fault) ==
    IF ShouldMoveHoneypot(token_age_hours, is_honeypot) /\ t \in DOMAIN db.scan_records
    THEN MoveRows(db, db, "HONEYPOTS", t, "Token age > 1hr and confirmed honeypot", now, fault)
    ELSE db

\* the exception, if any, that takes the pass to its except block before
\* the store is written: the GoPlus display code (lines 995-1099) converts
\* fields with int()/float(); token_info is bound only under
\* "if honeypot_data:" (line 937) and read at line 1127.
RaisedBeforePersist(hp, gp) ==
    IF gp = "bad" THEN "ValueError"
    ELSE IF hp = Empty THEN "UnboundLocalError"
    ELSE ""

\* UPDATE scan_records SET honeypot_failures = honeypot_failures + 1,
\* last_error = ? WHERE token_address = ? (lines 1432-1437)
ErrorUpdateClobber(row, error_message) ==
    [row EXCEPT !.honeypot_failures = @ + 1, !.last_error = error_message,
                !.hp_is_honeypot = TRUE, !.token_age_hours = None,
                !.gp_is_open_source = FALSE, !.liq = NoLiq]
ErrorUpdate(row, error_message) ==
    [row EXCEPT !.honeypot_failures = @ + 1, !.last_error = error_message]

\* WHERE token_address = ? AND honeypot_failures >= ? AND hp_is_honeypot = 1
\* (lines 1473-1477)
FailedTokenAnyFlag(row, limit) == row.honeypot_failures >= limit
FailedToken(row, limit) == row.honeypot_failures >= limit /\ row.hp_is_honeypot

\* the except block of process_token (lines 1426-1552): the store afterwards
FailurePathSkipsUpdate(db, t, error_message, now, fault) == db
FailurePath(db, t, error_message, now, fault) ==
    IF fault = "update" THEN Rollback(db, db)
    ELSE IF t \notin DOMAIN db.scan_records THEN db
    ELSE LET s0 == [db EXCEPT !.scan_records[t] = ErrorUpdate(@, error_message)]
         IN  IF FailedToken(s0.scan_records[t], honeypot_failure_limit)
             THEN MoveRows(db, s0, "xHoneypot_removed", t,
                           "Exceeded honeypot failure limit", now, fault)
             ELSE s0

\* the inner try of the except block (lines 1429-1547): a sqlite3.Error of
\* its UPDATE, INSERT or DELETE is caught by "except sqlite3.Error" and logged,
\* and process_token goes on to return False; what is raised to the caller
ErrorBlockRaisedUncaught(fault) ==
    IF fault \in {"update", "insert", "delete"} THEN "sqlite3.Error" ELSE ""
ErrorBlockRaised(fault) == ""

\* the persist block (lines 1123-1376) when a statement of it raises: the
\* INSERT OR REPLACE INTO scan_records (line 1365) and the INSERT into the
\* token-specific table (line 1371) are one transaction, committed at line
\* 1376, so neither row is kept
PersistFailedKeepsMainRow(db, written) ==
    [db EXCEPT !.scan_records = written.scan_records]
PersistFailed(db, written) == Rollback(db, written)

\* process_token (lines 893-1552): the store afterwards, the value returned
\* and the exception raised to the caller, if any.  The failure limit is
\* looked at in the except block only.
ProcessTokenChecksLimit(db, t, pair, hp, gp, now, fault) ==
    LET early == RaisedBeforePersist(hp, gp)
    IN  IF early # ""
        THEN [db |-> FailurePath(db, t, early, now, fault), ok |-> FALSE,
              raised |-> ErrorBlockRaised(fault)]
        ELSE IF fault = "persist"
        THEN LET written == [db EXCEPT !.scan_records =
                                  Put(@, t, MergedRow(db, t, pair, hp, gp, now))]
             IN  [db |-> FailurePath(PersistFailed(db, written), t, "sqlite3.Error", now, "none"),
                  ok |-> FALSE, raised |-> ErrorBlockRaised("none")]
        ELSE LET persisted == [db EXCEPT !.scan_records =
                                  Put(@, t, MergedRow(db, t, pair, hp, gp, now)),
                                         !.token_tables[t] = @ + 1]
                 age == TokenAgeHours(hp)
                 checked == IF age # None
                            THEN CheckAndMoveHoneypot(persisted, t, age, IsHoneypot(hp), now, fault)
                            ELSE persisted
             IN  [db |-> IF /\ t \in DOMAIN checked.scan_records
                            /\ FailedToken(checked.scan_records[t], honeypot_failure_limit)
                         THEN MoveRows(checked, checked, "xHoneypot_removed", t,
                                       "Exceeded honeypot failure limit", now, "none")
                         ELSE checked,
                  ok |-> TRUE, raised |-> ""]
ProcessToken(db, t, pair, hp, gp, now, fault) ==
    LET early == RaisedBeforePersist(hp, gp)
    IN  IF early # ""
        THEN [db |-> FailurePath(db, t, early, now, fault), ok |-> FALSE,
              raised |-> ErrorBlockRaised(fault)]
        ELSE IF fault = "persist"
        THEN LET written == [db EXCEPT !.scan_records =
                                  Put(@, t, MergedRow(db, t, pair, hp, gp, now))]
             IN  [db |-> FailurePath(PersistFailed(db, written), t, "sqlite3.Error", now, "none"),
                  ok |-> FALSE, raised |-> ErrorBlockRaised("none")]
        ELSE LET persisted == [db EXCEPT !.scan_records =
                                  Put(@, t, MergedRow(db, t, pair, hp, gp, now)),
                                         !.token_tables[t] = @ + 1]
                 age == TokenAgeHours(hp)
             IN  [db |-> IF age # None
                         THEN CheckAndMoveHoneypot(persisted, t, age, IsHoneypot(hp), now, fault)
                         ELSE persisted,
                  ok |-> TRUE, raised |-> ""]

\* the statements a pass executes when the store raises nowhere
FaultPoints(db, t, pair, hp, gp, now) ==
    LET early == RaisedBeforePersist(hp, gp)
        hasRow == t \in DOMAIN db.scan_records
        movePoints(table) == IF t \in DOMAIN db[table] THEN {"insert"}
                             ELSE {"insert", "delete"}
    IN  {"none"} \cup
        IF early # ""
        THEN {"update"} \cup
             IF hasRow /\ FailedToken(ErrorUpdate(db.scan_records[t], early),
                                      honeypot_failure_limit)
             THEN movePoints("xHoneypot_removed") ELSE {}
        ELSE {"persist"} \cup
             IF TokenAgeHours(hp) # None
                /\ ShouldMoveHoneypot(TokenAgeHours(hp), IsHoneypot(hp))
             THEN movePoints("HONEYPOTS") ELSE {}

\* -------------------------------------------------------------- key_manager
\* key_rotation_interval and key_swap_sleep_time of the configuration, in
\* seconds
RotationIntervals == {0, 1, 2}
SwapSleepTimes == {0, 1}

\* the singleton InfuraKeyManager after __init__ and initialize()
\* (key_manager.py lines 15-34): a pool of n distinct keys, index 0, the
\* last rotation at construction time
KeyPool(n) == [i \in 1..n |-> 10 + i]
KeyManagers ==
    {[infura_keys |-> KeyPool(n), current_key_index |-> 0,
      last_key_rotation |-> 0, key_rotation_interval |-> iv,
      key_swap_sleep_time |-> sl] :
        n \in 1..MaxKeys, iv \in RotationIntervals, sl \in SwapSleepTimes}

\* get_current_key (lines 36-40): Python indexes the pool from 0
GetCurrentKey(km) == km.infura_keys[km.current_key_index + 1]

\* get_current_rpc_url (lines 42-45): base_url + key
GetCurrentRpcUrl(km) == <<"https://mainnet.infura.io/v3/", GetCurrentKey(km)>>

\* rotate_key (lines 47-54), before its sleep
RotateKeyKeepsIndex(km, t) == [km EXCEPT !.last_key_rotation = t]
RotateKey(km, t) ==
    [km EXCEPT !.current_key_index = (@ + 1) % Len(km.infura_keys),
               !.last_key_rotation = t]

\* the singleton InfuraKeyManager after __new__ and __init__ (lines 9-23),
\* before any initialize(): an empty pool
NewKeyManager ==
    [infura_keys |-> <<>>, current_key_index |-> 0, last_key_rotation |-> 0,
     key_rotation_interval |-> 0, key_swap_sleep_time |-> 0]

\* initialize (lines 25-34) with a list of n keys: the pool and the two
\* settings are replaced, the index and the last rotation are not touched
Initialized(km, n, iv, sl) ==
    [km EXCEPT !.infura_keys = KeyPool(n), !.key_rotation_interval = iv,
               !.key_swap_sleep_time = sl]

\* get_current_key (lines 36-40) as a call: RuntimeError on an empty pool,
\* IndexError when the index is past the end of the pool, else the key
GetCurrentKeyResult(km) ==
    IF km.infura_keys = <<>> THEN [km |-> km, raised |-> "RuntimeError", key |-> 0]
    ELSE IF km.current_key_index >= Len(km.infura_keys)
    THEN [km |-> km, raised |-> "IndexError", key |-> 0]
    ELSE [km |-> km, raised |-> "", key |-> GetCurrentKey(km)]

\* rotate_key (lines 47-54) as a call: RuntimeError on an empty pool before
\* anything is assigned, else the rotation
RotateKeyResultStampsFirst(km, t) ==
    IF km.infura_keys = <<>>
    THEN [km |-> [km EXCEPT !.last_key_rotation = t], raised |-> "RuntimeError",
          key |-> 0]
    ELSE [km |-> RotateKey(km, t), raised |-> "", key |-> 0]
RotateKeyResult(km, t) ==
    IF km.infura_keys = <<>> THEN [km |-> km, raised |-> "RuntimeError", key |-> 0]
    ELSE [km |-> RotateKey(km, t), raised |-> "", key |-> 0]

\* no call on the key manager recorded yet
NoKeyCall == [valid |-> FALSE, op |-> "", raised |-> "", key |-> 0,
              before |-> NewKeyManager, after |-> NewKeyManager]

\* datetime.now() - self.last_key_rotation >
\* timedelta(seconds=self.key_rotation_interval) (line 58)
RotationDueAtInterval(km, t) == t - km.last_key_rotation >= km.key_rotation_interval
RotationDue(km, t) == t - km.last_key_rotation > km.key_rotation_interval

\* check_and_rotate_key (lines 56-59), before the sleep of its rotate_key
CheckAndRotateKey(km, t) == IF RotationDue(km, t) THEN RotateKey(km, t) ELSE km

\* TokenTracker.rotate_key (SPXfucked.py lines 108-111) on the key manager
\* km at time now: the rotation, the blocking time.sleep of rotate_key, the
\* new provider
TrackerRotateKey(c) ==
    LET km == RotateKey(c.km, c.now)
    IN  [km |-> km, now |-> c.now + km.key_swap_sleep_time,
         web3 |-> GetCurrentRpcUrl(km), rotations |-> c.rotations + 1,
         rotated_at |-> c.now]

\* TokenTracker.check_and_rotate_key (SPXfucked.py lines 113-116)
TrackerCheckAndRotateKey(c) ==
    LET km == CheckAndRotateKey(c.km, c.now)
        due == RotationDue(c.km, c.now)
    IN  [km |-> km,
         now |-> IF due THEN c.now + km.key_swap_sleep_time ELSE c.now,
         web3 |-> GetCurrentRpcUrl(km),
         rotations |-> IF due THEN c.rotations + 1 ELSE c.rotations,
         rotated_at |-> IF due THEN c.now ELSE c.rotated_at]

RpcOps == {"get_pair_info", "check_token_contract"}
\* no RPC call in progress
RpcIdle == [op |-> "", state |-> "idle", attempts |-> 0, result |-> "",
            call |-> "", sent_to |-> <<>>,
            start_index |-> 0, rotations |-> 0, rotated_at |-> 0,
            checked_at |-> 0, checked_last |-> 0, checked_index |-> 0]

\* the contract function each method calls first (SPXfucked.py lines 122,
\* 159) and the one it calls after that (lines 135, 160)
FirstContractCall(op) == IF op = "get_pair_info" THEN "getPair" ELSE "name"
LaterContractCall(op) == IF op = "get_pair_info" THEN "getReserves" ELSE "symbol"

\* the provider the first contract call of a method is sent through:
\* getPair is a function of self.factory_contract, which setup_contracts
\* made from the provider of that moment (lines 94-97, 122); name() is a
\* function of a contract made from self.web3 inside the method (lines
\* 153-156)
FirstCallProvider(op, fc, w3) == IF op = "get_pair_info" THEN fc ELSE w3

\* datetime.now() moves on by one second
Tick ==
    /\ time_now < MaxTime
    /\ time_now' = time_now + 1
    /\ UNCHANGED <<key_manager, web3, factory_contract, rpc, key_call>>
    /\ UNCHANGED <<passVars, trackerVars, managerVars>>

\* get_pair_info / check_token_contract is called (SPXfucked.py lines
\* 118-122, 149-153): check_and_rotate_key, then the contract call is sent
RpcCall(op) ==
    /\ rpc.state = "idle"
    /\ LET c == TrackerCheckAndRotateKey([km |-> key_manager, now |-> time_now,
                                          web3 |-> web3, rotations |-> 0,
                                          rotated_at |-> 0])
       IN  /\ c.now <= MaxTime
           /\ key_manager' = c.km
           /\ web3' = c.web3
           /\ time_now' = c.now
           /\ rpc' = [op |-> op, state |-> "awaiting", attempts |-> 1,
                      result |-> "",
                      call |-> FirstContractCall(op),
                      sent_to |-> FirstCallProvider(op, factory_contract, c.web3),
                      start_index |-> key_manager.current_key_index,
                      rotations |-> c.rotations,
                      rotated_at |-> c.rotated_at,
                      checked_at |-> time_now,
                      checked_last |-> key_manager.last_key_rotation,
                      checked_index |-> key_manager.current_key_index]
    /\ UNCHANGED <<factory_contract, key_call>>
    /\ UNCHANGED <<passVars, trackerVars, managerVars>>

\* the first contract call answers and the method sends its next one:
\* getReserves through a pair contract made from self.web3 (lines 130-135),
\* symbol() through the token contract of this attempt (line 160)
RpcContinue ==
    /\ rpc.state = "awaiting"
    /\ rpc.call = FirstContractCall(rpc.op)
    /\ rpc' = [rpc EXCEPT !.call = LaterContractCall(rpc.op), !.sent_to = web3]
    /\ UNCHANGED <<key_manager, web3, factory_contract, time_now, key_call>>
    /\ UNCHANGED <<passVars, trackerVars, managerVars>>

\* the contract call answers, or raises an exception whose text has no
\* "429": the call returns its dict, or logs the error and returns None
\* (lines 126-139, 146-147, 155-162, 169-170)
RpcReturn(outcome) ==
    /\ rpc.state = "awaiting"
    /\ rpc' = [rpc EXCEPT !.state = "idle", !.result = outcome]
    /\ UNCHANGED <<key_manager, web3, factory_contract, time_now, key_call>>
    /\ UNCHANGED <<passVars, trackerVars, managerVars>>

\* the contract call raises an exception with "429" in its text (lines
\* 142-145, 165-168): rotate_key, then the method calls itself, which
\* starts with check_and_rotate_key and sends the contract call again
RpcRateLimited ==
    /\ rpc.state = "awaiting"
    /\ rpc.attempts < MaxAttempts
    /\ LET c1 == TrackerRotateKey([km |-> key_manager, now |-> time_now,
                                   web3 |-> web3, rotations |-> rpc.rotations,
                                   rotated_at |-> rpc.rotated_at])
           c2 == TrackerCheckAndRotateKey(c1)
       IN  /\ c2.now <= MaxTime
           /\ key_manager' = c2.km
           /\ web3' = c2.web3
           /\ time_now' = c2.now
           /\ rpc' = [rpc EXCEPT !.attempts = @ + 1,
                                 !.call = FirstContractCall(rpc.op),
                                 !.sent_to = FirstCallProvider(rpc.op,
                                                 factory_contract, c2.web3),
                                 !.rotations = c2.rotations,
                                 !.rotated_at = c2.rotated_at,
                                 !.checked_at = c1.now,
                                 !.checked_last = c1.km.last_key_rotation,
                                 !.checked_index = c1.km.current_key_index]
    /\ UNCHANGED <<factory_contract, key_call>>
    /\ UNCHANGED <<passVars, trackerVars, managerVars>>

\* initialize() is called with a list of n keys (key_manager.py lines 25-34;
\* SPXfucked.py lines 34-39 and GX_Scan.py lines 2107-2113 call it on the
\* same singleton)
Initialize(n, iv, sl) ==
    /\ key_manager' = Initialized(key_manager, n, iv, sl)
    /\ key_call' = [valid |-> TRUE, op |-> "initialize", raised |-> "", key |-> 0,
                    before |-> key_manager, after |-> key_manager']
    /\ UNCHANGED <<web3, factory_contract, rpc, time_now>>
    /\ UNCHANGED <<passVars, trackerVars, managerVars>>

\* rotate_key() is called on the key manager (lines 47-54), with its
\* blocking sleep when it rotates
RotateKeyCall ==
    LET r == RotateKeyResult(key_manager, time_now)
        woke == IF r.raised = "" THEN time_now + r.km.key_swap_sleep_time
                ELSE time_now
    IN  /\ woke <= MaxTime
        /\ key_manager' = r.km
        /\ time_now' = woke
        /\ key_call' = [valid |-> TRUE, op |-> "rotate_key", raised |-> r.raised,
                        key |-> 0, before |-> key_manager, after |-> r.km]
        /\ UNCHANGED <<web3, factory_contract, rpc>>
        /\ UNCHANGED <<passVars, trackerVars, managerVars>>

\* get_current_key() is called on the key manager (lines 36-40)
GetCurrentKeyCall ==
    LET r == GetCurrentKeyResult(key_manager)
    IN  /\ key_call' = [valid |-> TRUE, op |-> "get_current_key",
                        raised |-> r.raised, key |-> r.key,
                        before |-> key_manager, after |-> r.km]
        /\ UNCHANGED <<key_manager, web3, factory_contract, rpc, time_now>>
        /\ UNCHANGED <<passVars, trackerVars, managerVars>>

\* -------------------------------------------------- api_tracker, api_wrapper
Endpoints == {"goplus", "honeypot"}

\* response texts: blank, the JSON texts {} and [], a JSON object with the
\* provider's top-level field "result", a JSON object without it, a JSON
\* object without it whose message says "Rate limit", and a text that is
\* not JSON
Bodies == {"", "{}", "[]", "result", "no_result", "rate_limit", "garbage"}
HasResultField(body) == body = "result"
HasRateLimitMarker(body) == body = "rate_limit"
ParsesAsJson(body) == body \in {"{}", "[]", "result", "no_result", "rate_limit"}

\* what session.get produces: a response with a status and a text, or an
\* exception of the transport
Responses ==
    [transport : {FALSE}, status : {200, 429, 500}, body : Bodies]
    \cup {[transport |-> TRUE, status |-> 0, body |-> ""]}

\* the stats of an endpoint at its first call (api_tracker.py lines 73-81)
NewStats == [total_calls |-> 0, success_count |-> 0, error_count |-> 0,
             rate_limit_count |-> 0, empty_response_count |-> 0]
StatsOf(stats, endpoint) ==
    IF endpoint \in DOMAIN stats THEN stats[endpoint] ELSE NewStats

\* the counter log_api_call increments (lines 90-103).  response_body is the
\* response text, a str, so of the five tests of lines 92-96 the two
\* isinstance(response_body, dict) ones are never true.
CountedClass(response_code, response_body, error) ==
    IF response_code = 200 /\ error = ""
    THEN IF response_body \in {"", "{}", "[]"}
         THEN "empty_response_count" ELSE "success_count"
    ELSE IF response_code = 429 \/ HasRateLimitMarker(response_body)
    THEN "rate_limit_count"
    ELSE "error_count"

\* log_api_call (lines 34-115) on the tracker tr
LogApiCall(tr, endpoint, response_code, response_body, error) ==
    LET stats == StatsOf(tr.calls_by_endpoint, endpoint)
        class == CountedClass(response_code, response_body, error)
    IN  [call_counter |-> tr.call_counter + 1,
         calls_by_endpoint |->
             Put(tr.calls_by_endpoint, endpoint,
                 [stats EXCEPT !.total_calls = @ + 1, ![class] = @ + 1])]

\* except Exception as e (api_wrapper.py lines 71-82, 125-136): the error of
\* the try block is logged as a call with code 500 and {} is returned; an
\* error the clause does not catch leaves the fetch as an exception, which
\* the model writes as the returned value "raised".
ExceptBlockJsonOnly(tr, endpoint, error) ==
    IF error = "JSONDecodeError"
    THEN [tr |-> LogApiCall(tr, endpoint, 500, "", error), returned |-> "{}"]
    ELSE [tr |-> tr, returned |-> "raised"]
ExceptBlock(tr, endpoint, error) ==
    [tr |-> LogApiCall(tr, endpoint, 500, "", error), returned |-> "{}"]

\* call_goplus_api (api_wrapper.py lines 26-82) and call_honeypot_api (lines
\* 84-136) for one response: the tracker afterwards and what is returned.
\* An exception inside the try block, json.loads of a 200 text that is not
\* JSON included, is logged by the except block as a second call.
Fetch(tr, endpoint, resp) ==
    IF resp.transport
    THEN ExceptBlock(tr, endpoint, "ClientError")
    ELSE LET logged == LogApiCall(tr, endpoint, resp.status, resp.body, "")
         IN  IF resp.status # 200 THEN [tr |-> logged, returned |-> "{}"]
             ELSE IF ~ParsesAsJson(resp.body)
             THEN ExceptBlock(logged, endpoint, "JSONDecodeError")
             ELSE IF endpoint = "goplus" /\ ~HasResultField(resp.body)
             THEN [tr |-> logged, returned |-> "{}"]
             ELSE [tr |-> logged, returned |-> resp.body]

NoCall == [valid |-> FALSE, endpoint |-> "", resp |-> [transport |-> TRUE, status |-> 0, body |-> ""],
           before |-> NewStats, counter_before |-> 0, returned |-> ""]

\* one provider fetch, from session.get to the return
ProviderFetch(endpoint, resp) ==
    /\ call_counter < MaxCalls
    /\ LET r == Fetch([call_counter |-> call_counter,
                       calls_by_endpoint |-> calls_by_endpoint], endpoint, resp)
       IN  /\ call_counter' = r.tr.call_counter
           /\ calls_by_endpoint' = r.tr.calls_by_endpoint
           /\ last_call' = [valid |-> TRUE, endpoint |-> endpoint, resp |-> resp,
                            before |-> StatsOf(calls_by_endpoint, endpoint),
                            counter_before |-> call_counter,
                            returned |-> r.returned]
    /\ UNCHANGED <<passVars, keyVars, managerVars>>

\* await api_wrapper.call_goplus_api(address)
CallGoplusApi(resp) == ProviderFetch("goplus", resp)
\* await api_wrapper.call_honeypot_api(address)
CallHoneypotApi(resp) == ProviderFetch("honeypot", resp)

\* empty_responses of the statistics block of process_token (GX_Scan.py
\* lines 1396-1406): 1 for goplus when the answer has no result, 1 for
\* honeypot when the report has no true simulationSuccess
EmptyResponses(hp, gp) ==
    [goplus |-> IF gp = "empty" THEN 1 ELSE 0,
     honeypot |-> IF Get(hp, "simulationSuccess", FALSE) THEN 0 ELSE 1]

\* for endpoint, stats in api_tracker.calls_by_endpoint.items():
\* stats["empty_response_count"] = empty_responses.get(endpoint, 0) (lines
\* 1408-1411)
PrintApiStats(stats, hp, gp) ==
    [e \in DOMAIN stats |->
        [stats[e] EXCEPT !.empty_response_count = Get(EmptyResponses(hp, gp), e, 0)]]

\* ------------------------------------------------------------ main loop
\* SELECT ... FROM scan_records WHERE status = 'active' ORDER BY
\* scan_timestamp ASC (lines 1569-1576): every ordering of the active rows
\* that is ascending in scan_timestamp
ActiveTokens == {t \in DOMAIN scan_records : scan_records[t].status = "active"}
RescanSelectionsNewestFirst ==
    {s \in [1..Cardinality(ActiveTokens) -> ActiveTokens] :
        /\ \A i, j \in DOMAIN s : i # j => s[i] # s[j]
        /\ \A i, j \in DOMAIN s :
              i < j => scan_records[s[i]].scan_timestamp >= scan_records[s[j]].scan_timestamp}
RescanSelections ==
    {s \in [1..Cardinality(ActiveTokens) -> ActiveTokens] :
        /\ \A i, j \in DOMAIN s : i # j => s[i] # s[j]
        /\ \A i, j \in DOMAIN s :
              i < j => scan_records[s[i]].scan_timestamp <= scan_records[s[j]].scan_timestamp}

\* a session folder that is reused starts from the tables the earlier run
\* left (lines 2464-2488); a new one starts empty (ensure_database_ready)
EarlierSessionRow ==
    [pair_address |-> PairOf(1), scan_timestamp |-> 0,
     token_age_hours |-> Some(1), hp_is_honeypot |-> TRUE,
     hp_liquidity_amount |-> 7, hp_creation_time |-> "1h",
     hp_honeypot_reason |-> "", hp_is_open_source |-> FALSE,
     hp_is_proxy |-> FALSE, hp_is_mintable |-> FALSE,
     gp_is_open_source |-> TRUE, total_scans |-> 10,
     honeypot_failures |-> 4, last_error |-> "ValueError",
     status |-> "active", liq |-> [NoLiq EXCEPT ![10] = Some(7)]]
InitialScanRecords == {EmptyTable, [t \in {1} |-> EarlierSessionRow]}
InitialStores == [scan_records : InitialScanRecords, HONEYPOTS : {EmptyTable}]
NewStores == [scan_records : {EmptyTable}, HONEYPOTS : {EmptyTable}]

NoPass == [valid |-> FALSE, token |-> 0, src |-> "", gate |-> FALSE,
           hp |-> Empty, gp |-> "empty", fault |-> "none", ok |-> FALSE,
           raised |-> "", selected |-> None, pre |-> None, moved |-> ""]

\* config.json as load_config returns it (lines 2017-2054): the scanning
\* section, with liquidity_multiplier 1 and honeypot_failure_limit 5 when
\* the file does not set them
DefaultConfig == [scanning |-> [liquidity_multiplier |-> 1,
                                honeypot_failure_limit |-> 5]]

\* no RPC call made yet, one key in the pool
KeyIdle ==
    /\ key_manager = [infura_keys |-> KeyPool(1), current_key_index |-> 0,
                      last_key_rotation |-> 0, key_rotation_interval |-> 0,
                      key_swap_sleep_time |-> 0]
    /\ web3 = GetCurrentRpcUrl(key_manager)
    /\ factory_contract = web3
    /\ key_call = NoKeyCall
    /\ rpc = RpcIdle
    /\ time_now = 0

\* APITracker.__init__ (api_tracker.py lines 13-27)
TrackerIdle ==
    /\ call_counter = 0
    /\ calls_by_endpoint = EmptyTable
    /\ last_call = NoCall

\* ------------------------------------------------------------- db_manager
\* strftime('%Y-%m-%d %H:%M:%S') (db_manager.py line 92): a text of fixed
\* width, most significant field first; here a time n is written as two
\* fields
Strftime(n) == <<n \div 2, n % 2>>

\* the comparison SQLite makes between two TEXT values: field by field
\* from the left
TextLessOrEqual(a, b) == a[1] < b[1] \/ (a[1] = b[1] /\ a[2] <= b[2])

\* json.dumps and json.loads (lines 82, 110)
JsonDumps(d) == <<"json", d>>
JsonLoads(text) == text[2]

\* the counters and the timestamps a ScanResult carries
ManagerCounts == 0..1
ScanResults ==
    {[address |-> t, pair_address |-> PairOf(t), scan_timestamp |-> Strftime(n),
      total_scans |-> scans, honeypot_failures |-> failures] :
        t \in Tokens, n \in 0..(MaxTime - 1), scans \in ManagerCounts,
        failures \in ManagerCounts}

\* the row update_scan_record writes (lines 72-85)
ScanRecordRow(result) ==
    [scan_timestamp |-> result.scan_timestamp,
     total_scans |-> result.total_scans,
     honeypot_failures |-> result.honeypot_failures,
     token_data |-> JsonDumps([address |-> result.address,
                               pair_address |-> result.pair_address])]

\* WHERE honeypot_failures < ? AND total_scans < ? AND scan_timestamp <= ?
\* (lines 101-104)
RescanWhereAtLimit(row, max_failures, max_scans, cutoff_time) ==
    /\ row.honeypot_failures <= max_failures
    /\ row.total_scans < max_scans
    /\ TextLessOrEqual(row.scan_timestamp, cutoff_time)
RescanWhere(row, max_failures, max_scans, cutoff_time) ==
    /\ row.honeypot_failures < max_failures
    /\ row.total_scans < max_scans
    /\ TextLessOrEqual(row.scan_timestamp, cutoff_time)

\* the dict built for a fetched row (lines 110-116)
RescanEntry(table, t) ==
    [address |-> t, pair |-> JsonLoads(table[t].token_data).pair_address,
     total_scans |-> table[t].total_scans,
     failures |-> table[t].honeypot_failures]

\* get_tokens_for_rescan (lines 87-121) at time now: the lists it can
\* return, one per order SQLite may give rows of equal scan_timestamp under
\* ORDER BY scan_timestamp DESC; [] when the query raises sqlite3.Error
GetTokensForRescan(table, max_failures, max_scans, minutes_old, now, failed) ==
    IF failed THEN {<<>>}
    ELSE LET cutoff_time == Strftime(now - minutes_old)
             rows == {t \in DOMAIN table :
                        RescanWhere(table[t], max_failures, max_scans, cutoff_time)}
             orders == {o \in [1..Cardinality(rows) -> rows] :
                          /\ \A i, j \in DOMAIN o : i # j => o[i] # o[j]
                          /\ \A i, j \in DOMAIN o :
                                i < j => TextLessOrEqual(table[o[j]].scan_timestamp,
                                                         table[o[i]].scan_timestamp)}
         IN  {[i \in DOMAIN o |-> RescanEntry(table, o[i])] : o \in orders}

\* no rescan query made yet
NoQuery == [valid |-> FALSE, max_failures |-> 0, max_scans |-> 0,
            minutes_old |-> 0, now |-> 0, failed |-> FALSE, returned |-> <<>>]

\* DatabaseManager.__init__ on a new folder (lines 29-53)
ManagerIdle ==
    /\ manager_records = EmptyTable
    /\ rescan_query = NoQuery

\* update_scan_record(result) (lines 55-85): INSERT OR REPLACE.  The list
\* an earlier query returned is no longer looked at once the table changes.
UpdateScanRecord(result) ==
    /\ manager_records' = Put(manager_records, result.address, ScanRecordRow(result))
    /\ rescan_query' = NoQuery
    /\ UNCHANGED <<passVars, keyVars, trackerVars>>

\* get_tokens_for_rescan(max_failures, max_scans, minutes_old) is called
\* at time now
RescanQuery(max_failures, max_scans, minutes_old, now, failed) ==
    /\ now >= minutes_old
    /\ \E returned \in GetTokensForRescan(manager_records, max_failures, max_scans,
                                           minutes_old, now, failed) :
          rescan_query' = [valid |-> TRUE, max_failures |-> max_failures,
                           max_scans |-> max_scans, minutes_old |-> minutes_old,
                           now |-> now, failed |-> failed, returned |-> returned]
    /\ UNCHANGED manager_records
    /\ UNCHANGED <<passVars, keyVars, trackerVars>>

\* TokenTrackerMain.__init__ over the tables of the session folder
PassInit(stores) ==
    /\ \E s \in stores : scan_records = s.scan_records /\ HONEYPOTS = s.HONEYPOTS
    /\ xHoneypot_removed = EmptyTable
    /\ token_tables = [t \in Tokens |->
                         IF t \in DOMAIN scan_records THEN scan_records[t].total_scans
                         ELSE IF t \in DOMAIN HONEYPOTS THEN HONEYPOTS[t].total_scans
                         ELSE 0]
    /\ running = TRUE
    /\ session = FALSE
    /\ hung = {}
    /\ process_semaphore = 1
    /\ scanning = {}
    /\ pc = "start"
    /\ iter_due = {}
    /\ rescan_tokens = <<>>
    /\ events = {}
    /\ clock = 0
    /\ last = NoPass
    /\ passes = [t \in Tokens |-> IF t \in DOMAIN scan_records
                                  THEN scan_records[t].total_scans ELSE 0]
    /\ okSince = passes

Init ==
    /\ PassInit(InitialStores)
    /\ config = DefaultConfig
    /\ KeyIdle
    /\ TrackerIdle
    /\ ManagerIdle

\* entry into process_token; its provider calls open the shared HTTP
\* session if there is none (api_wrapper.py lines 15-18, 37, 95)
EnterScanning(t, pair, src, gate) ==
    /\ clock < MaxPasses
    /\ clock' = clock + 1
    /\ scanning' = scanning \cup {[token |-> t, pair |-> pair, src |-> src, gate |-> gate]}
    /\ session' = TRUE

\* entries = await self.event_filter.get_all_entries(); weth_pairs (lines 2320-2343)
HistoricalScan(batch) ==
    /\ pc = "start"
    /\ clock < MaxPasses
    /\ events' = batch
    /\ pc' = "historical"
    /\ UNCHANGED <<scan_records, HONEYPOTS, xHoneypot_removed, token_tables, process_semaphore,
                   scanning, iter_due, rescan_tokens, clock, last, passes, okSince>>
    /\ UNCHANGED <<config, running, session, hung, keyVars, trackerVars, managerVars>>

\* await self.process_token_safe(token, pair) for the next event of the
\* batch (lines 2345-2359, 2386-2406, 2256-2259): acquire the semaphore,
\* enter process_token
ProcessTokenSafe(t) ==
    /\ pc \in {"historical", "events"}
    /\ t \in events
    /\ process_semaphore > 0
    /\ process_semaphore' = process_semaphore - 1
    /\ EnterScanning(t, PairOf(t), "discovery", TRUE)
    /\ events' = events \ {t}
    /\ pc' = IF pc = "historical" THEN "hist_wait" ELSE "events_wait"
    /\ UNCHANGED <<scan_records, HONEYPOTS, xHoneypot_removed, token_tables, iter_due,
                   rescan_tokens, last, passes, okSince>>
    /\ UNCHANGED <<config, running, hung, keyVars, trackerVars, managerVars>>

\* the batch is exhausted: on to the while loop, or to its next iteration
BatchDone ==
    /\ pc \in {"historical", "events"}
    /\ events = {}
    /\ pc' = "top"
    /\ iter_due' = {}
    /\ UNCHANGED <<scan_records, HONEYPOTS, xHoneypot_removed, token_tables, process_semaphore,
                   scanning, rescan_tokens, events, clock, last, passes,
                   okSince>>
    /\ UNCHANGED <<config, running, session, hung, keyVars, trackerVars, managerVars>>

\* current_time = datetime.now() and the rescan test (lines 2367-2370):
\* due is the set of the two intervals that have elapsed at current_time
BeginRescan(due, selection) ==
    /\ pc = "top"
    /\ running
    /\ clock < MaxPasses
    /\ "rescan" \in due
    /\ iter_due' = due
    /\ rescan_tokens' = selection
    /\ pc' = "sweep"
    /\ UNCHANGED <<scan_records, HONEYPOTS, xHoneypot_removed, token_tables, process_semaphore,
                   scanning, events, clock, last, passes, okSince>>
    /\ UNCHANGED <<config, running, session, hung, keyVars, trackerVars, managerVars>>

SkipRescan(due) ==
    /\ pc = "top"
    /\ running
    /\ clock < MaxPasses
    /\ "rescan" \notin due
    /\ iter_due' = due
    /\ pc' = "check"
    /\ UNCHANGED <<scan_records, HONEYPOTS, xHoneypot_removed, token_tables, process_semaphore,
                   scanning, rescan_tokens, events, clock, last, passes, okSince>>
    /\ UNCHANGED <<config, running, session, hung, keyVars, trackerVars, managerVars>>

\* where the sweep is once it has called process_token for a token: it
\* awaits the call (line 1585)
AfterRescanCallNoAwait == "sweep"
AfterRescanCall == "sweep_wait"

\* for token_address, pair_address, ... in tokens: await
\* self.process_token(token_address, pair_address) (lines 1581-1586)
RescanToken ==
    /\ pc = "sweep"
    /\ rescan_tokens # <<>>
    /\ LET t == Head(rescan_tokens)
       IN  EnterScanning(t, PairOf(t), "rescan", FALSE)
    /\ rescan_tokens' = Tail(rescan_tokens)
    /\ pc' = AfterRescanCall
    /\ UNCHANGED <<scan_records, HONEYPOTS, xHoneypot_removed, token_tables, process_semaphore,
                   iter_due, events, last, passes, okSince>>
    /\ UNCHANGED <<config, running, hung, keyVars, trackerVars, managerVars>>

\* process_rescan_tokens returns (line 2376), once the for loop of lines
\* 1581-1586 has gone through every selected row
SweepDoneAfterFirstRow ==
    /\ pc = "sweep"
    /\ pc' = "check"
    /\ UNCHANGED <<scan_records, HONEYPOTS, xHoneypot_removed, token_tables, process_semaphore,
                   scanning, iter_due, rescan_tokens, events, clock, last, passes,
                   okSince>>
    /\ UNCHANGED <<config, running, session, hung, keyVars, trackerVars, managerVars>>
SweepDone ==
    /\ pc = "sweep"
    /\ rescan_tokens = <<>>
    /\ pc' = "check"
    /\ UNCHANGED <<scan_records, HONEYPOTS, xHoneypot_removed, token_tables, process_semaphore,
                   scanning, iter_due, rescan_tokens, events, clock, last, passes,
                   okSince>>
    /\ UNCHANGED <<config, running, session, hung, keyVars, trackerVars, managerVars>>

\* events = await self.event_filter.get_new_entries() (lines 2380-2385)
PollEvents(batch) ==
    /\ pc = "check"
    /\ "check" \in iter_due
    /\ clock < MaxPasses
    /\ events' = batch
    /\ pc' = "events"
    /\ UNCHANGED <<scan_records, HONEYPOTS, xHoneypot_removed, token_tables, process_semaphore,
                   scanning, iter_due, rescan_tokens, clock, last, passes, okSince>>
    /\ UNCHANGED <<config, running, session, hung, keyVars, trackerVars, managerVars>>

SkipCheck ==
    /\ pc = "check"
    /\ "check" \notin iter_due
    /\ pc' = "top"
    /\ iter_due' = {}
    /\ UNCHANGED <<scan_records, HONEYPOTS, xHoneypot_removed, token_tables, process_semaphore,
                   scanning, rescan_tokens, events, clock, last, passes,
                   okSince>>
    /\ UNCHANGED <<config, running, session, hung, keyVars, trackerVars, managerVars>>

\* which removal table, if any, the pass moved the token to
MovedTo(before, after, t) ==
    IF t \in DOMAIN after.HONEYPOTS /\ t \notin DOMAIN before.HONEYPOTS
    THEN "HONEYPOTS"
    ELSE IF t \in DOMAIN after.xHoneypot_removed /\ t \notin DOMAIN before.xHoneypot_removed
    THEN "xHoneypot_removed"
    ELSE ""

\* the providers answer and process_token runs from the gather to its
\* return, the statistics block of a pass that returns True included; the
\* caller resumes, releasing the semaphore if it holds it.  tr is the
\* tracker as the provider calls of the pass left it.
FinishPassWith(p, hp, gp, fault, tr, lc) ==
    /\ p \in scanning
    /\ p \notin hung
    /\ fault \in FaultPoints(Store, p.token, p.pair, hp, gp, clock)
    /\ LET t == p.token
           r == ProcessToken(Store, t, p.pair, hp, gp, clock, fault)
       IN  /\ scan_records' = r.db.scan_records
           /\ HONEYPOTS' = r.db.HONEYPOTS
           /\ xHoneypot_removed' = r.db.xHoneypot_removed
           /\ token_tables' = r.db.token_tables
           /\ last' = [valid |-> TRUE, token |-> t, src |-> p.src, gate |-> p.gate,
                       hp |-> hp, gp |-> gp, fault |-> fault, ok |-> r.ok,
                       raised |-> r.raised, selected |-> r.db.selected,
                       pre |-> IF t \in DOMAIN scan_records
                               THEN Some(scan_records[t]) ELSE None,
                       moved |-> MovedTo(Store, r.db, t)]
           /\ passes' = [passes EXCEPT ![t] = @ + 1]
           /\ okSince' = [okSince EXCEPT ![t] =
                             IF t \notin DOMAIN r.db.scan_records THEN 0
                             ELSE IF r.ok THEN @ + 1 ELSE @]
    /\ scanning' = scanning \ {p}
    /\ process_semaphore' = IF p.gate THEN process_semaphore + 1 ELSE process_semaphore
    /\ pc' = CASE p.src = "rescan" /\ pc = "sweep_wait" -> "sweep"
               [] p.src = "discovery" /\ pc = "hist_wait" -> "historical"
               [] p.src = "discovery" /\ pc = "events_wait" -> "events"
               [] OTHER -> pc
    /\ call_counter' = tr.call_counter
    /\ calls_by_endpoint' =
          IF ProcessToken(Store, p.token, p.pair, hp, gp, clock, fault).ok
          THEN PrintApiStats(tr.calls_by_endpoint, hp, gp)
          ELSE tr.calls_by_endpoint
    /\ last_call' = lc
    /\ UNCHANGED <<iter_due, rescan_tokens, events, clock>>
    /\ UNCHANGED <<config, running, session, hung, keyVars, managerVars>>

\* a pass whose provider calls are not followed through the tracker
FinishPass(p, hp, gp, fault) ==
    FinishPassWith(p, hp, gp, fault,
                   [call_counter |-> call_counter,
                    calls_by_endpoint |-> calls_by_endpoint], last_call)

Next ==
    \/ \E batch \in SUBSET Tokens : HistoricalScan(batch)
    \/ \E t \in Tokens : ProcessTokenSafe(t)
    \/ BatchDone
    \/ \E due \in SUBSET {"rescan", "check"} :
          \E selection \in RescanSelections : BeginRescan(due, selection)
    \/ \E due \in SUBSET {"rescan", "check"} : SkipRescan(due)
    \/ RescanToken
    \/ SweepDone
    \/ \E batch \in SUBSET Tokens : PollEvents(batch)
    \/ SkipCheck
    \/ \E p \in scanning : \E hp \in HpResults : \E gp \in GpResults :
          \E fault \in Faults : FinishPass(p, hp, gp, fault)

Spec == Init /\ [][Next]_vars

\* ------------------------------------------------- reused session folders
\* The main loop over the tables an earlier run left: a record near a
\* ladder milestone, or an address the earlier run moved to HONEYPOTS; with
\* reports whose liquidity differs from pass to pass and a configuration
\* file that sets scanning.liquidity_multiplier.
LadderLiquidities == {7, 8}
LadderReports == [isHoneypot : {"false"}, createdAtTimestamp : {""},
                  liquidity : LadderLiquidities]
LadderGpResults == {"ok", "bad"}
LadderFaults == {"none", "persist", "update"}

\* the row a reused session holds after n successful passes with liquidity 7
LadderSessionRow(n) ==
    [EarlierSessionRow EXCEPT
        !.total_scans = n, !.honeypot_failures = 0, !.last_error = "",
        !.hp_is_honeypot = FALSE, !.token_age_hours = None,
        !.hp_creation_time = "",
        !.liq = [m \in Milestones |-> IF m <= n THEN Some(7) ELSE None]]
LadderSeeds == {9, 199}
LadderScanRecords ==
    {EmptyTable} \cup {[t \in {1} |-> LadderSessionRow(n)] : n \in LadderSeeds}
\* the HONEYPOTS table after the earlier run moved token 1 there
RemovedEarlier ==
    [t \in {1} |-> RemovalRow(EarlierSessionRow, "Token age > 1hr and confirmed honeypot", 0)]
SessionStores ==
    [scan_records : LadderScanRecords, HONEYPOTS : {EmptyTable}]
    \cup {[scan_records |-> EmptyTable, HONEYPOTS |-> RemovedEarlier]}
ConfiguredMultipliers == {1, 3}
LadderConfigs == {[DefaultConfig EXCEPT !.scanning.liquidity_multiplier = m] :
                     m \in ConfiguredMultipliers}

SessionInit ==
    /\ PassInit(SessionStores)
    /\ config \in LadderConfigs
    /\ KeyIdle
    /\ TrackerIdle
    /\ ManagerIdle

SessionNext ==
    \/ \E batch \in SUBSET Tokens : HistoricalScan(batch)
    \/ \E t \in Tokens : ProcessTokenSafe(t)
    \/ BatchDone
    \/ \E due \in SUBSET {"rescan", "check"} :
          \E selection \in RescanSelections : BeginRescan(due, selection)
    \/ \E due \in SUBSET {"rescan", "check"} : SkipRescan(due)
    \/ RescanToken
    \/ SweepDone
    \/ \E batch \in SUBSET Tokens : PollEvents(batch)
    \/ SkipCheck
    \/ \E p \in scanning : \E hp \in LadderReports : \E gp \in LadderGpResults :
          \E fault \in LadderFaults : FinishPass(p, hp, gp, fault)

SessionSpec == SessionInit /\ [][SessionNext]_vars

\* ------------------------------------------------ records near the limit
\* The main loop over a session whose record has failed four times, or five
\* times before its honeypot flag was last stored as true; with honeypot
\* reports whose pair carries no createdAtTimestamp or one that is neither
\* digits nor '%Y-%m-%d %H:%M:%S', and a configuration file that sets
\* scanning.honeypot_failure_limit.
UnusableCreatedAt == {"", "bad"}
FailureReports == [isHoneypot : {"true", "false"},
                   createdAtTimestamp : UnusableCreatedAt,
                   liquidity : Liquidities]
FailureHpResults == {Empty} \cup FailureReports
FailureGpResults == {"ok", "bad"}

\* the row after a fifth failed pass on a record whose flag was false and a
\* successful pass that then stored the flag true
AtLimitSessionRow ==
    [EarlierSessionRow EXCEPT !.honeypot_failures = 5, !.last_error = "",
                              !.total_scans = 11]
FailureStores ==
    [scan_records : {EmptyTable, [t \in {1} |-> EarlierSessionRow],
                     [t \in {1} |-> AtLimitSessionRow]},
     HONEYPOTS : {EmptyTable}]
ConfiguredFailureLimits == {5, 7}
FailureConfigs == {[DefaultConfig EXCEPT !.scanning.honeypot_failure_limit = n] :
                      n \in ConfiguredFailureLimits}

FailureInit ==
    /\ PassInit(FailureStores)
    /\ config \in FailureConfigs
    /\ KeyIdle
    /\ TrackerIdle
    /\ ManagerIdle

FailureNext ==
    \/ \E batch \in SUBSET Tokens : HistoricalScan(batch)
    \/ \E t \in Tokens : ProcessTokenSafe(t)
    \/ BatchDone
    \/ \E due \in SUBSET {"rescan", "check"} :
          \E selection \in RescanSelections : BeginRescan(due, selection)
    \/ \E due \in SUBSET {"rescan", "check"} : SkipRescan(due)
    \/ RescanToken
    \/ SweepDone
    \/ \E batch \in SUBSET Tokens : PollEvents(batch)
    \/ SkipCheck
    \/ \E p \in scanning : \E hp \in FailureHpResults : \E gp \in FailureGpResults :
          \E fault \in Faults : FinishPass(p, hp, gp, fault)

FailureSpec == FailureInit /\ [][FailureNext]_vars

\* ------------------------------------------------ shutdown and stuck calls
\* stop() (lines 2261-2263): self.running = False, nothing else
Stop ==
    /\ running
    /\ pc # "stopped"
    /\ running' = FALSE
    /\ UNCHANGED <<scan_records, HONEYPOTS, xHoneypot_removed, token_tables,
                   process_semaphore, scanning, pc, iter_due, rescan_tokens, events,
                   clock, last, passes, okSince>>
    /\ UNCHANGED <<config, session, hung, keyVars, trackerVars, managerVars>>

\* while self.running (line 2366) finds it false: the loop ends and the
\* finally block (lines 2435-2441) closes the HTTP session
LoopExit ==
    /\ pc = "top"
    /\ ~running
    /\ pc' = "stopped"
    /\ session' = FALSE
    /\ UNCHANGED <<scan_records, HONEYPOTS, xHoneypot_removed, token_tables,
                   process_semaphore, scanning, iter_due, rescan_tokens, events,
                   clock, last, passes, okSince>>
    /\ UNCHANGED <<config, running, hung, keyVars, trackerVars, managerVars>>

\* the task of main_loop is cancelled (asyncio.run on SIGINT, lines
\* 2497-2503): CancelledError is raised at the await the coroutine is
\* suspended in.  Inside process_token that is the gather of line 911;
\* CancelledError is not an Exception, so neither line 1426 nor the
\* "except Exception" of the batch loops (lines 2353, 2420) catches it: the
\* pass is abandoned, "async with" releases the semaphore, and main_loop
\* handles it at line 2427 and runs its finally block.
Cancel ==
    /\ pc # "stopped"
    /\ pc' = "stopped"
    /\ scanning' = {}
    /\ hung' = {}
    /\ process_semaphore' = 1
    /\ running' = FALSE
    /\ session' = FALSE
    /\ UNCHANGED <<scan_records, HONEYPOTS, xHoneypot_removed, token_tables,
                   iter_due, rescan_tokens, events, clock, last, passes, okSince>>
    /\ UNCHANGED <<config, keyVars, trackerVars, managerVars>>

\* the provider calls of the pass p never complete: asyncio.gather (lines
\* 911-915) is awaited without a timeout, and nothing in process_token,
\* process_token_safe or api_wrapper sets one
ProviderNeverAnswers(p) ==
    /\ p \in scanning
    /\ p \notin hung
    /\ hung' = hung \cup {p}
    /\ UNCHANGED <<scan_records, HONEYPOTS, xHoneypot_removed, token_tables,
                   process_semaphore, scanning, pc, iter_due, rescan_tokens, events,
                   clock, last, passes, okSince>>
    /\ UNCHANGED <<config, running, session, keyVars, trackerVars, managerVars>>

InterruptReports == [isHoneypot : {"false"}, createdAtTimestamp : {""},
                     liquidity : Liquidities]
InterruptHpResults == {Empty} \cup InterruptReports

InterruptInit ==
    /\ PassInit(InitialStores)
    /\ config = DefaultConfig
    /\ KeyIdle
    /\ TrackerIdle
    /\ ManagerIdle

\* the steps main_loop takes by itself
InterruptLoop ==
    \/ \E batch \in SUBSET Tokens : HistoricalScan(batch)
    \/ \E t \in Tokens : ProcessTokenSafe(t)
    \/ BatchDone
    \/ \E due \in SUBSET {"rescan", "check"} :
          \E selection \in RescanSelections : BeginRescan(due, selection)
    \/ \E due \in SUBSET {"rescan", "check"} : SkipRescan(due)
    \/ RescanToken
    \/ SweepDone
    \/ \E batch \in SUBSET Tokens : PollEvents(batch)
    \/ SkipCheck
    \/ \E p \in scanning : \E hp \in InterruptHpResults :
          FinishPass(p, hp, "ok", "none")
    \/ LoopExit

InterruptNext ==
    \/ InterruptLoop
    \/ Stop
    \/ Cancel
    \/ \E p \in scanning : ProviderNeverAnswers(p)

InterruptSpec == InterruptInit /\ [][InterruptNext]_vars

\* the event loop keeps running the coroutine of main_loop whenever it can
\* take a step; stop(), cancellation and a provider that never answers are
\* up to the environment
FairInterruptSpec == InterruptSpec /\ WF_vars(InterruptLoop)

\* ------------------------------------------------------ the three moves
\* move_token_to_removed (lines 818-891), which the program defines and
\* never calls, applied between two passes to a token that has an active
\* record and no row in xHoneypot_removed yet
MoveTokenToRemoved(t, reason) ==
    /\ scanning = {}
    /\ pc # "stopped"
    /\ t \in DOMAIN scan_records
    /\ t \notin DOMAIN xHoneypot_removed
    /\ xHoneypot_removed' =
          Put(xHoneypot_removed, t, MoveTokenToRemovedRow(scan_records[t], reason, clock))
    /\ scan_records' = Del(scan_records, t)
    /\ last' = [NoPass EXCEPT !.token = t, !.selected = Some(scan_records[t]),
                              !.moved = "xHoneypot_removed"]
    /\ okSince' = [okSince EXCEPT ![t] = 0]
    /\ UNCHANGED <<HONEYPOTS, token_tables, process_semaphore, scanning, pc,
                   iter_due, rescan_tokens, events, clock, passes>>
    /\ UNCHANGED <<config, running, session, hung, keyVars, trackerVars, managerVars>>

RemovalReports == [isHoneypot : {"true"}, createdAtTimestamp : {"", "2h"},
                   liquidity : Liquidities, honeypotReason : {"", "high tax"},
                   openSource : BOOLEAN]
RemovalHpResults == {Empty} \cup RemovalReports
RemovalReasons == {"Token too old with low liquidity"}

RemovalInit ==
    /\ PassInit(InitialStores)
    /\ config = DefaultConfig
    /\ KeyIdle
    /\ TrackerIdle
    /\ ManagerIdle

RemovalNext ==
    \/ \E batch \in SUBSET Tokens : HistoricalScan(batch)
    \/ \E t \in Tokens : ProcessTokenSafe(t)
    \/ BatchDone
    \/ \E due \in SUBSET {"rescan", "check"} :
          \E selection \in RescanSelections : BeginRescan(due, selection)
    \/ \E due \in SUBSET {"rescan", "check"} : SkipRescan(due)
    \/ RescanToken
    \/ SweepDone
    \/ \E batch \in SUBSET Tokens : PollEvents(batch)
    \/ SkipCheck
    \/ \E p \in scanning : \E hp \in RemovalHpResults :
          FinishPass(p, hp, "ok", "none")
    \/ \E t \in Tokens : \E reason \in RemovalReasons : MoveTokenToRemoved(t, reason)

RemovalSpec == RemovalInit /\ [][RemovalNext]_vars

\* ------------------------------------------------- reports that change
\* The main loop over the record an earlier run left, with honeypot reports
\* that differ from the stored row in every field the row takes from them,
\* and a GoPlus answer with or without a result.
RefreshReports ==
    {[isHoneypot |-> "false", createdAtTimestamp |-> "", liquidity |-> 8,
      honeypotReason |-> "high tax", openSource |-> TRUE, isProxy |-> TRUE,
      isMintable |-> TRUE],
     [isHoneypot |-> "true", createdAtTimestamp |-> "1h", liquidity |-> 7,
      honeypotReason |-> "", openSource |-> FALSE, isProxy |-> FALSE,
      isMintable |-> FALSE]}
RefreshGpResults == {"empty", "ok"}
RefreshFaults == {"none", "persist"}

RefreshInit ==
    /\ PassInit(InitialStores)
    /\ config = DefaultConfig
    /\ KeyIdle
    /\ TrackerIdle
    /\ ManagerIdle

RefreshNext ==
    \/ \E batch \in SUBSET Tokens : HistoricalScan(batch)
    \/ \E t \in Tokens : ProcessTokenSafe(t)
    \/ BatchDone
    \/ \E due \in SUBSET {"rescan", "check"} :
          \E selection \in RescanSelections : BeginRescan(due, selection)
    \/ \E due \in SUBSET {"rescan", "check"} : SkipRescan(due)
    \/ RescanToken
    \/ SweepDone
    \/ \E batch \in SUBSET Tokens : PollEvents(batch)
    \/ SkipCheck
    \/ \E p \in scanning : \E hp \in RefreshReports : \E gp \in RefreshGpResults :
          \E fault \in RefreshFaults : FinishPass(p, hp, gp, fault)

RefreshSpec == RefreshInit /\ [][RefreshNext]_vars

\* ------------------------------------------------ sweeps over two records
\* The main loop over a session folder with one or two active records,
\* left to run: nobody stops it and every provider call is answered.
SecondSessionRow ==
    [EarlierSessionRow EXCEPT !.pair_address = PairOf(2), !.honeypot_failures = 0,
                              !.last_error = ""]
SweepStores ==
    [scan_records : {[t \in {1} |-> EarlierSessionRow],
                     [t \in {1, 2} |-> IF t = 1 THEN EarlierSessionRow
                                       ELSE SecondSessionRow]},
     HONEYPOTS : {EmptyTable}]
SweepHpResults ==
    {Empty, [isHoneypot |-> "false", createdAtTimestamp |-> "", liquidity |-> 7]}

SweepInit ==
    /\ PassInit(SweepStores)
    /\ config = DefaultConfig
    /\ KeyIdle
    /\ TrackerIdle
    /\ ManagerIdle

SweepNext ==
    \/ \E batch \in SUBSET Tokens : HistoricalScan(batch)
    \/ \E t \in Tokens : ProcessTokenSafe(t)
    \/ BatchDone
    \/ \E due \in SUBSET {"rescan", "check"} :
          \E selection \in RescanSelections : BeginRescan(due, selection)
    \/ \E due \in SUBSET {"rescan", "check"} : SkipRescan(due)
    \/ RescanToken
    \/ SweepDone
    \/ \E batch \in SUBSET Tokens : PollEvents(batch)
    \/ SkipCheck
    \/ \E p \in scanning : \E hp \in SweepHpResults :
          FinishPass(p, hp, "ok", "none")

SweepSpec == SweepInit /\ [][SweepNext]_vars

\* (current_time - last_rescan_time).total_seconds() >= rescan_interval
\* (line 2370) with last_rescan_time = current_time after a sweep (line
\* 2376): every iteration takes time (the sleep of line 2422), so the test
\* cannot stay false for ever
RescanComesDue ==
    \E due \in SUBSET {"rescan", "check"} :
        \E selection \in RescanSelections : BeginRescan(due, selection)

\* the event loop runs main_loop whenever it can take a step, provider
\* calls are answered, and the rescan interval elapses again and again
FairSweepSpec == SweepSpec /\ WF_vars(SweepNext) /\ SF_vars(RescanComesDue)

\* ------------------------------------------- the key manager and RPC calls
KeyInit ==
    /\ PassInit(NewStores)
    /\ config = DefaultConfig
    /\ key_manager \in KeyManagers
    /\ web3 = GetCurrentRpcUrl(key_manager)
    /\ factory_contract = web3
    /\ key_call = NoKeyCall
    /\ rpc = RpcIdle
    /\ time_now = 0
    /\ TrackerIdle
    /\ ManagerIdle

KeyNext ==
    \/ Tick
    \/ \E op \in RpcOps : RpcCall(op)
    \/ RpcContinue
    \/ \E outcome \in {"ok", "error"} : RpcReturn(outcome)
    \/ RpcRateLimited

KeySpec == KeyInit /\ [][KeyNext]_vars

\* ------------------------------------------ the key manager on its own
\* the pool sizes initialize() is given: none, one, several keys
PoolSizes == 0..MaxKeys

PoolInit ==
    /\ PassInit(NewStores)
    /\ config = DefaultConfig
    /\ key_manager = NewKeyManager
    \* no TokenTracker, hence no provider, is built in this specification
    /\ web3 = <<"https://mainnet.infura.io/v3/", 0>>
    /\ factory_contract = web3
    /\ rpc = RpcIdle
    /\ time_now = 0
    /\ key_call = NoKeyCall
    /\ TrackerIdle
    /\ ManagerIdle

PoolNext ==
    \/ Tick
    \/ \E n \in PoolSizes : \E iv \in RotationIntervals : \E sl \in SwapSleepTimes :
          Initialize(n, iv, sl)
    \/ RotateKeyCall
    \/ GetCurrentKeyCall

PoolSpec == PoolInit /\ [][PoolNext]_vars

\* ------------------------------------- passes that log their provider calls
\* The main loop with the two provider calls of every pass followed through
\* api_wrapper and the tracker: what each call returns is what the pass
\* works on.
StatsResponses ==
    {[transport |-> FALSE, status |-> 200, body |-> "result"],
     [transport |-> FALSE, status |-> 200, body |-> "{}"],
     [transport |-> FALSE, status |-> 429, body |-> ""]}

\* the honeypot reports a 200 answer with content parses to
StatsReports ==
    [isHoneypot : {"false"}, createdAtTimestamp : {""}, liquidity : {8},
     simulationSuccess : BOOLEAN]

\* process_token from its two provider calls (lines 906-915, through
\* check_honeypot and check_goplus, lines 798-804) to its return
TrackedPass(p, hpResp, gpResp, report, fault) ==
    LET hpFetch == Fetch([call_counter |-> call_counter,
                          calls_by_endpoint |-> calls_by_endpoint],
                         "honeypot", hpResp)
        gpFetch == Fetch(hpFetch.tr, "goplus", gpResp)
        hp == IF hpFetch.returned = "{}" THEN Empty ELSE report
        gp == IF gpFetch.returned = "{}" THEN "empty" ELSE "ok"
    IN  FinishPassWith(p, hp, gp, fault, gpFetch.tr,
                       [valid |-> TRUE, endpoint |-> "goplus", resp |-> gpResp,
                        before |-> StatsOf(hpFetch.tr.calls_by_endpoint, "goplus"),
                        counter_before |-> hpFetch.tr.call_counter,
                        returned |-> gpFetch.returned])

StatsInit ==
    /\ PassInit(NewStores)
    /\ config = DefaultConfig
    /\ KeyIdle
    /\ TrackerIdle
    /\ ManagerIdle

StatsNext ==
    \/ \E batch \in SUBSET Tokens : HistoricalScan(batch)
    \/ \E t \in Tokens : ProcessTokenSafe(t)
    \/ BatchDone
    \/ \E due \in SUBSET {"rescan", "check"} :
          \E selection \in RescanSelections : BeginRescan(due, selection)
    \/ \E due \in SUBSET {"rescan", "check"} : SkipRescan(due)
    \/ RescanToken
    \/ SweepDone
    \/ \E batch \in SUBSET Tokens : PollEvents(batch)
    \/ SkipCheck
    \/ \E p \in scanning : \E hpResp \in StatsResponses :
          \E gpResp \in StatsResponses : \E report \in StatsReports :
             TrackedPass(p, hpResp, gpResp, report, "none")

StatsSpec == StatsInit /\ [][StatsNext]_vars

\* ------------------------------------------------- the DatabaseManager
\* the arguments of get_tokens_for_rescan
RescanLimits == {1, 2}
MinutesOld == {0, 1}
\* datetime.now() at the query: not before the newest timestamp stored
QueryTimes == {MaxTime - 1, MaxTime}

ManagerInit ==
    /\ PassInit(NewStores)
    /\ config = DefaultConfig
    /\ KeyIdle
    /\ TrackerIdle
    /\ ManagerIdle

ManagerNext ==
    \/ \E result \in ScanResults : UpdateScanRecord(result)
    \/ \E max_failures \in RescanLimits : \E max_scans \in RescanLimits :
          \E minutes_old \in MinutesOld : \E now \in QueryTimes :
             \E failed \in BOOLEAN :
                RescanQuery(max_failures, max_scans, minutes_old, now, failed)

ManagerSpec == ManagerInit /\ [][ManagerNext]_vars

\* ------------------------------------------------------ the call tracker
TrackerInit ==
    /\ PassInit(NewStores)
    /\ config = DefaultConfig
    /\ KeyIdle
    /\ TrackerIdle
    /\ ManagerIdle

TrackerNext ==
    \/ \E resp \in Responses : CallGoplusApi(resp)
    \/ \E resp \in Responses : CallHoneypotApi(resp)

TrackerSpec == TrackerInit /\ [][TrackerNext]_vars

TypeOK ==
    /\ DOMAIN scan_records \subseteq Tokens
    /\ process_semaphore \in 0..1
    /\ clock \in 0..MaxPasses

\* ------------------------------------------------------------- properties
LastToken == last.token
LastAge == TokenAgeHours(last.hp)
InRemovalTable(t) == t \in DOMAIN HONEYPOTS \/ t \in DOMAIN xHoneypot_removed

C2_NeverActiveAndRemoved ==
    \A t \in Tokens : ~(t \in DOMAIN scan_records /\ InRemovalTable(t))

\* C3: a move to a removal table is all-or-nothing.  A pass that inserted
\* the token into a removal table also deleted it from the active table; a
\* row that a pass found or persisted leaves the active table only by such
\* an insert; and a move interrupted at its INSERT or between its INSERT and
\* its DELETE leaves the token active and in no new removal row.
C3_MoveAllOrNothing ==
    last.valid =>
        /\ last.moved # "" => LastToken \notin DOMAIN scan_records
        /\ ((last.pre # None \/ last.ok) /\ LastToken \notin DOMAIN scan_records)
              => last.moved # ""
        /\ last.fault \in {"insert", "delete"} =>
              (last.moved = "" /\ LastToken \in DOMAIN scan_records)

C3_Witness ==
    /\ last.valid /\ last.fault = "delete" /\ last.moved = ""
    /\ LastToken \in DOMAIN scan_records
    /\ ~InRemovalTable(LastToken)

C5_FailureLimitMoveOnlyAtLimitAndFlag ==
    /\ \A t \in DOMAIN xHoneypot_removed :
          /\ xHoneypot_removed[t].honeypot_failures >= honeypot_failure_limit
          /\ xHoneypot_removed[t].hp_is_honeypot
    /\ (last.valid /\ last.moved = "xHoneypot_removed") => ~last.ok
    /\ (last.valid /\ ~last.ok /\ last.pre # None /\ ~last.pre[1].hp_is_honeypot)
          => LastToken \in DOMAIN scan_records

C5_Witness ==
    /\ last.valid /\ last.moved = "xHoneypot_removed"
    /\ xHoneypot_removed[LastToken].honeypot_failures = honeypot_failure_limit
    /\ last.pre[1].honeypot_failures = honeypot_failure_limit - 1

\* C6: at most one token is inside process_token at any instant.
C6_AtMostOneScanning == Cardinality(scanning) <= 1

C6_Witness ==
    /\ iter_due = {"rescan", "check"}
    /\ \E p \in scanning : p.src = "rescan"

\* C7: every pass in flight was entered holding the capacity-1 semaphore.
C7_EveryPassHoldsGate ==
    \A p \in scanning : p.gate /\ process_semaphore = 0

\* C8: a pass one of whose provider calls returned {} still persists a
\* record for the token (when the store raises nowhere).
C8_ProviderFailureStillPersists ==
    (last.valid /\ last.fault = "none" /\ (last.hp = Empty \/ last.gp = "empty"))
        => (last.ok /\ (LastToken \in DOMAIN scan_records \/ last.moved = "HONEYPOTS"))

\* C9: after the pass of a discovery event, the address is in the active
\* table unless the pass moved it to a removal table.
C9_DiscoveredTokenKept ==
    (last.valid /\ last.src = "discovery")
        => (LastToken \in DOMAIN scan_records \/ last.moved # "")

\* C10: a failed pass on an existing record that stays active leaves every
\* stored field except totalScans, honeypotFailures and lastError as it was.
FrameFields == {"pair_address", "scan_timestamp", "token_age_hours", "hp_is_honeypot",
                "hp_liquidity_amount", "hp_creation_time", "gp_is_open_source",
                "status", "liq"}
C10_FailedPassKeepsFields ==
    (last.valid /\ ~last.ok /\ last.pre # None /\ LastToken \in DOMAIN scan_records)
        => /\ \A f \in FrameFields : scan_records[LastToken][f] = last.pre[1][f]
           /\ DOMAIN scan_records[LastToken] = DOMAIN last.pre[1]

C10_Witness ==
    /\ last.valid /\ ~last.ok /\ last.pre # None
    /\ LastToken \in DOMAIN scan_records
    /\ scan_records[LastToken].liq[10] = Some(7)
    /\ scan_records[LastToken].honeypot_failures = last.pre[1].honeypot_failures + 1
    /\ scan_records[LastToken].last_error # last.pre[1].last_error

\* C11: a ladder slot, once written, is never changed by a later pass on the
\* same active record: a record is created with every slot empty, a slot
\* that holds a value keeps it in every step that leaves the record in the
\* active table, and the slot of milestone m changes only in the step in
\* which totalScans goes from m - 1 to m, which writes it.
C11_LadderSlotWrittenOnce ==
    [][\A t \in DOMAIN scan_records' : \A m \in Milestones :
          IF t \notin DOMAIN scan_records
          THEN scan_records'[t].liq[m] = None
          ELSE /\ scan_records[t].liq[m] # None
                     => scan_records'[t].liq[m] = scan_records[t].liq[m]
               /\ scan_records'[t].liq[m] # scan_records[t].liq[m]
                     => (scan_records[t].total_scans = m - 1
                         /\ scan_records'[t].total_scans = m)
               /\ (scan_records[t].total_scans = m - 1
                   /\ scan_records'[t].total_scans = m)
                     => scan_records'[t].liq[m] # None]_vars

C11_Witness ==
    /\ last.valid /\ last.ok /\ last.pre # None
    /\ LastToken \in DOMAIN scan_records
    /\ scan_records[LastToken].total_scans = 11
    /\ last.pre[1].liq[10] = Some(7)
    /\ last.hp.liquidity = 8
    /\ last.pre[1].hp_liquidity_amount = 7
    /\ scan_records[LastToken].liq[10] = Some(7)

\* C12: after a successful pass that leaves the record active, the slot of
\* milestone m holds the pass's liquidity if the new totalScans equals m and
\* is an exact multiple of the configured scanning.liquidity_multiplier, and
\* every other slot holds what it held before the pass (empty on a new
\* record).
C12_SlotWrittenIffConfiguredMultiple ==
    (last.valid /\ last.ok /\ LastToken \in DOMAIN scan_records) =>
        LET row == scan_records[LastToken]
            previous == IF last.pre = None THEN NoLiq ELSE last.pre[1].liq
            multiplier == config.scanning.liquidity_multiplier
        IN  \A m \in Milestones :
                row.liq[m] = IF row.total_scans = m /\ row.total_scans % multiplier = 0
                             THEN Some(last.hp.liquidity) ELSE previous[m]

\* C13: in every step that leaves a token's record in the active table,
\* totalScans does not decrease and honeypotFailures does not decrease.
C13_CountersNeverDecrease ==
    [][\A t \in DOMAIN scan_records \cap DOMAIN scan_records' :
          /\ scan_records'[t].total_scans >= scan_records[t].total_scans
          /\ scan_records'[t].honeypot_failures >= scan_records[t].honeypot_failures]_vars

C13_Witness ==
    /\ last.valid /\ last.ok /\ last.pre # None
    /\ LastToken \in DOMAIN scan_records
    /\ last.pre[1].honeypot_failures = 4
    /\ scan_records[LastToken].honeypot_failures = 4
    /\ scan_records[LastToken].total_scans = last.pre[1].total_scans + 1

\* C14: once an iteration of the main loop has finished its rescan sweep and
\* run its periodic check, no token that meets the stale condition (age
\* above MAX_AGE_HOURS and liquidity below MIN_LIQUIDITY) is left in the
\* active table.
C14_StaleTokenRemovedBySweep ==
    (pc = "events" /\ "rescan" \in iter_due) =>
        \A t \in ActiveTokens :
            ~(/\ scan_records[t].token_age_hours # None
              /\ CheckTokenConditions(scan_records[t].token_age_hours[1],
                                      scan_records[t].hp_liquidity_amount))

\* C15: no rescan sweep starts a classification pass for an address that is
\* in a removal table.
C15_NoRescanAfterRemoval ==
    \A p \in scanning : p.src = "rescan" => ~InRemovalTable(p.token)

C17_AtMostTwoAttempts == rpc.attempts <= 2

\* C18: each rotation moves the current index to (old index + 1) mod n and
\* sets the last rotation to the time of the rotation, so after k rotations
\* the index is (start + k) mod n and after n of them it is back at its
\* start; the current endpoint is the pool entry at the current index.
C18_RotateAdvancesCircularly ==
    LET n == Len(key_manager.infura_keys)
    IN  /\ key_manager.current_key_index \in 0..(n - 1)
        /\ key_manager.current_key_index = (rpc.start_index + rpc.rotations) % n
        /\ rpc.rotations > 0 => key_manager.last_key_rotation = rpc.rotated_at
        /\ rpc.rotations = n => key_manager.current_key_index = rpc.start_index
        /\ GetCurrentRpcUrl(key_manager)[2]
              = key_manager.infura_keys[key_manager.current_key_index + 1]
        /\ web3 = GetCurrentRpcUrl(key_manager)

C18_Witness ==
    /\ Len(key_manager.infura_keys) = 3
    /\ rpc.rotations = 3
    /\ rpc.start_index = 0
    /\ key_manager.current_key_index = 0
    /\ web3[2] = KeyPool(3)[1]

\* C19: check_and_rotate_key rotates if and only if the time since the last
\* rotation is strictly greater than the rotation interval; when it is not,
\* the current index and the last rotation are left as they were.
C19_RotatesIffStrictlyOverdue ==
    rpc.attempts > 0 =>
        LET n == Len(key_manager.infura_keys)
        IN  IF rpc.checked_at - rpc.checked_last > key_manager.key_rotation_interval
            THEN /\ key_manager.current_key_index = (rpc.checked_index + 1) % n
                 /\ key_manager.last_key_rotation = rpc.checked_at
            ELSE /\ key_manager.current_key_index = rpc.checked_index
                 /\ key_manager.last_key_rotation = rpc.checked_last

C19_Witness ==
    /\ rpc.attempts = 1
    /\ key_manager.key_rotation_interval > 0
    /\ rpc.checked_at - rpc.checked_last = key_manager.key_rotation_interval
    /\ Len(key_manager.infura_keys) > 1
    /\ key_manager.current_key_index = rpc.checked_index
    /\ key_manager.last_key_rotation = rpc.checked_last

\* C20: every provider call outcome is counted in exactly one of the four
\* classes, the one the outcome calls for: Success for HTTP 200 with the
\* provider's top-level field, Empty for HTTP 200 without it, RateLimited
\* for HTTP 429 or a body with a rate-limit marker (a 200 body with the
\* marker may count as RateLimited or as Empty), Error for any other status
\* or a transport failure.
ClaimedClasses(resp) ==
    IF resp.transport THEN {"error_count"}
    ELSE IF resp.status = 429 THEN {"rate_limit_count"}
    ELSE IF resp.status = 200
    THEN IF HasResultField(resp.body) THEN {"success_count"}
         ELSE IF HasRateLimitMarker(resp.body)
         THEN {"rate_limit_count", "empty_response_count"}
         ELSE {"empty_response_count"}
    ELSE IF HasRateLimitMarker(resp.body) THEN {"rate_limit_count"}
    ELSE {"error_count"}
C20_OutcomeCountedInClaimedClass ==
    last_call.valid =>
        \E class \in ClaimedClasses(last_call.resp) :
            calls_by_endpoint[last_call.endpoint]
                = [last_call.before EXCEPT !.total_calls = @ + 1, ![class] = @ + 1]

\* C21: every provider fetch, whatever its outcome (a transport exception, an
\* HTTP error status, a 200 body that does not parse, a usable body), has been
\* logged with the tracker at least once when it returns, and it returns the
\* parsed body or {} and never an exception.
C21_FetchLoggedAndNeverRaises ==
    last_call.valid =>
        /\ StatsOf(calls_by_endpoint, last_call.endpoint).total_calls
              >= last_call.before.total_calls + 1
        /\ last_call.returned # "raised"
        /\ \/ last_call.returned = "{}"
           \/ /\ last_call.returned = last_call.resp.body
              /\ last_call.resp.status = 200
              /\ ParsesAsJson(last_call.returned)

C21_Witness ==
    /\ last_call.valid
    /\ last_call.resp.transport
    /\ last_call.returned = "{}"
    /\ StatsOf(calls_by_endpoint, last_call.endpoint).error_count
          = last_call.before.error_count + 1
    /\ call_counter = MaxCalls

\* C22: process_token raises nothing to its caller, whether a provider call
\* failed, the report could not be used or the store raised, during the
\* persist or inside the failure handling; it returns true exactly when the
\* pass's row was persisted (one more scan than before, or the first) and
\* false exactly when it was not.
C22_ProcessTokenReturnsBoolean ==
    last.valid =>
        LET t == LastToken
            scans_before == IF last.pre = None THEN 0 ELSE last.pre[1].total_scans
            persisted == \/ /\ t \in DOMAIN scan_records
                            /\ scan_records[t].total_scans = scans_before + 1
                         \/ /\ last.moved = "HONEYPOTS"
                            /\ HONEYPOTS[t].total_scans = scans_before + 1
        IN  /\ last.raised = ""
            /\ last.ok \in BOOLEAN
            /\ last.ok <=> persisted

C22_Witness ==
    /\ last.valid /\ ~last.ok /\ last.raised = ""
    /\ last.hp = Empty
    /\ last.fault = "update"
    /\ last.pre # None
    /\ scan_records[LastToken] = last.pre[1]

\* C23: once shutdown has been requested, by stop() or by cancelling the
\* main loop, no token is admitted into SCANNING any more; a pass leaves
\* SCANNING only by running to completion; and when the loop has exited the
\* provider HTTP session is closed.
C23_GracefulShutdown ==
    [][/\ ~running => scanning' \subseteq scanning
       /\ \A p \in scanning \ scanning' : passes'[p.token] = passes[p.token] + 1
       /\ pc' = "stopped" => ~session']_vars

\* C24: a pass whose provider calls never complete ends all the same, and
\* the slot it holds is released.
C24_StuckPassEndsAndReleasesSlot ==
    (hung # {}) ~> (hung = {} /\ process_semaphore = 1)

\* C25 (as claimed): in every step, the stored honeypotFailures of a record
\* that stays in the active table grows by one if the step is a pass on the
\* token that returned false, and is unchanged otherwise.
C25_FailuresUpByOneOnEveryFailedPass ==
    [][\A t \in DOMAIN scan_records \cap DOMAIN scan_records' :
          LET failed == passes'[t] = passes[t] + 1 /\ ~last'.ok
          IN  scan_records'[t].honeypot_failures =
                 scan_records[t].honeypot_failures + IF failed THEN 1 ELSE 0]_vars

\* C25 (amended): the stored honeypotFailures of a record that stays in the
\* active table grows by one in a step that is a failed pass on the token
\* whose failure transaction commits, and is unchanged in every other step:
\* a successful pass, any step that is not a pass on the token, and a failed
\* pass whose UPDATE, or whose move to the removal table, raises a store
\* error (the removal table refusing an address it already holds included)
\* and is rolled back.
C25_FailuresUpByOneWhenFailureCommitted ==
    [][\A t \in DOMAIN scan_records \cap DOMAIN scan_records' :
          LET failed == passes'[t] = passes[t] + 1 /\ ~last'.ok
              refused == /\ t \in DOMAIN xHoneypot_removed
                         /\ scan_records[t].hp_is_honeypot
                         /\ scan_records[t].honeypot_failures + 1 >= honeypot_failure_limit
              committed == last'.fault \notin {"update", "insert", "delete"} /\ ~refused
          IN  scan_records'[t].honeypot_failures =
                 scan_records[t].honeypot_failures
                    + IF failed /\ committed THEN 1 ELSE 0]_vars

C25_Witness ==
    /\ last.valid /\ ~last.ok /\ last.pre # None
    /\ last.fault \in {"insert", "delete"}
    /\ LastToken \in DOMAIN scan_records
    /\ scan_records[LastToken].honeypot_failures = last.pre[1].honeypot_failures
    /\ last.pre[1].honeypot_failures + 1 >= honeypot_failure_limit

C27_SuccessNeverMovesToFailureTable ==
    [][\A t \in Tokens :
          (passes'[t] = passes[t] + 1 /\ last'.ok) =>
              /\ xHoneypot_removed' = xHoneypot_removed
              /\ t \in DOMAIN scan_records' \/ t \in DOMAIN HONEYPOTS']_vars

C27_Witness ==
    /\ last.valid /\ last.ok /\ last.pre # None
    /\ last.pre[1].honeypot_failures >= honeypot_failure_limit
    /\ last.pre[1].hp_is_honeypot
    /\ LastToken \in DOMAIN scan_records
    /\ scan_records[LastToken].honeypot_failures >= honeypot_failure_limit
    /\ scan_records[LastToken].hp_is_honeypot
    /\ LastToken \notin DOMAIN xHoneypot_removed

\* C28: with L the scanning.honeypot_failure_limit of the configuration
\* file (5 when the file sets none), every row of the failure-limit removal
\* table was moved with honeypotFailures >= L, and a failed pass leaves no
\* record active whose honeypotFailures is >= L with the flag true.
C28_RemovalAtConfiguredLimit ==
    LET L == config.scanning.honeypot_failure_limit
    IN  /\ \A t \in DOMAIN xHoneypot_removed :
              xHoneypot_removed[t].honeypot_failures >= L
        /\ (/\ last.valid /\ ~last.ok /\ last.fault \in {"none", "persist"}
            /\ LastToken \in DOMAIN scan_records)
              => ~(/\ scan_records[LastToken].honeypot_failures >= L
                   /\ scan_records[LastToken].hp_is_honeypot)

\* C29: a pass whose honeypot report carries no usable pair-creation
\* timestamp (none, or one that cannot be parsed) does not move the token to
\* HONEYPOTS, whatever the flag, and when it persists its row the stored
\* ageHours is unset.
C29_NoTimestampNoAgeNoHoneypotMove ==
    (/\ last.valid /\ last.hp # Empty
     /\ last.hp.createdAtTimestamp \in UnusableCreatedAt) =>
        /\ last.moved # "HONEYPOTS"
        /\ LastToken \notin DOMAIN HONEYPOTS
        /\ last.ok => /\ LastToken \in DOMAIN scan_records
                      /\ scan_records[LastToken].token_age_hours = None

C29_Witness ==
    /\ last.valid /\ last.ok /\ last.pre # None
    /\ last.hp.createdAtTimestamp = "bad"
    /\ IsHoneypot(last.hp)
    /\ last.pre[1].token_age_hours = Some(1)
    /\ scan_records[LastToken].token_age_hours = None
    /\ scan_records[LastToken].hp_is_honeypot

\* the fields the removal tables share with scan_records, as pairs of the
\* removal column and the active column
SharedFields ==
    {<<"original_scan_timestamp", "scan_timestamp">>,
     <<"token_pair_address", "pair_address">>,
     <<"token_age_hours", "token_age_hours">>,
     <<"hp_liquidity_amount", "hp_liquidity_amount">>,
     <<"hp_creation_time", "hp_creation_time">>,
     <<"hp_is_honeypot", "hp_is_honeypot">>,
     <<"hp_honeypot_reason", "hp_honeypot_reason">>,
     <<"total_scans", "total_scans">>,
     <<"honeypot_failures", "honeypot_failures">>,
     <<"last_error", "last_error">>}

\* C30: after every move of a token to a removal table, the removal row
\* holds, in each field the tables share, the value the active row held when
\* the move read it (totalScans, honeypotFailures, lastError, the honeypot
\* flag and the honeypot reason among them), together with a removal
\* timestamp not earlier than the row's scan and a removal reason.
C30_RemovalRowCopiesActiveRow ==
    last.moved # "" =>
        LET removal == IF last.moved = "HONEYPOTS" THEN HONEYPOTS[LastToken]
                       ELSE xHoneypot_removed[LastToken]
            active == last.selected[1]
        IN  /\ \A f \in SharedFields : removal[f[1]] = active[f[2]]
            /\ removal.removal_timestamp >= active.scan_timestamp
            /\ removal.removal_reason # ""

\* C31: no record of the active table has the status NEW; a pass that
\* persists a record, the first one on a token included, leaves it ACTIVE.
C31_NeverPersistedAsNew ==
    /\ \A t \in DOMAIN scan_records : scan_records[t].status # "new"
    /\ (last.valid /\ last.ok /\ LastToken \in DOMAIN scan_records)
          => scan_records[LastToken].status = "active"

C31_Witness ==
    /\ last.valid /\ last.ok /\ last.pre = None
    /\ LastToken \in DOMAIN scan_records
    /\ scan_records[LastToken].total_scans = 1
    /\ scan_records[LastToken].status = "active"

\* the columns of scan_records that hold values of the two reports
ReportFields == {"token_age_hours", "hp_is_honeypot", "hp_liquidity_amount",
                 "hp_creation_time", "hp_honeypot_reason", "hp_is_open_source",
                 "hp_is_proxy", "hp_is_mintable", "gp_is_open_source"}

\* C32: after a pass that returned true and left the record active, every
\* honeypot-report field and every security-report field of the record
\* holds the value derived from that pass's reports (the default where the
\* report has no value), whatever the record held before.
C32_ReportFieldsOverwritten ==
    (last.valid /\ last.ok /\ LastToken \in DOMAIN scan_records) =>
        LET row == scan_records[LastToken]
            hp == last.hp
        IN  /\ row.token_age_hours =
                  (IF hp.createdAtTimestamp = "1h" THEN Some(1)
                   ELSE IF hp.createdAtTimestamp = "2h" THEN Some(2) ELSE None)
            /\ row.hp_is_honeypot = (hp.isHoneypot # "false")
            /\ row.hp_liquidity_amount = hp.liquidity
            /\ row.hp_creation_time = hp.createdAtTimestamp
            /\ row.hp_honeypot_reason = hp.honeypotReason
            /\ row.hp_is_open_source = hp.openSource
            /\ row.hp_is_proxy = hp.isProxy
            /\ row.hp_is_mintable = hp.isMintable
            /\ row.gp_is_open_source = (last.gp = "ok")

C32_Witness ==
    /\ last.valid /\ last.ok /\ last.pre # None
    /\ LastToken \in DOMAIN scan_records
    /\ last.gp = "empty"
    /\ \A f \in ReportFields : scan_records[LastToken][f] # last.pre[1][f]

\* C33: a pass that returns true on a token that already has a record
\* stores lastError empty, whatever error text the record held, and stores
\* honeypotFailures with the value the record held before the pass.
C33_SuccessClearsErrorKeepsFailures ==
    (last.valid /\ last.ok /\ last.pre # None) =>
        LET row == IF last.moved = "HONEYPOTS" THEN HONEYPOTS[LastToken]
                   ELSE scan_records[LastToken]
        IN  /\ row.last_error = ""
            /\ row.honeypot_failures = last.pre[1].honeypot_failures

C33_Witness ==
    /\ last.valid /\ last.ok /\ last.pre # None
    /\ last.pre[1].last_error = "ValueError"
    /\ last.pre[1].honeypot_failures = 4
    /\ LastToken \in DOMAIN scan_records
    /\ scan_records[LastToken].last_error = ""
    /\ scan_records[LastToken].honeypot_failures = 4

\* C34: after a rate-limit error on an RPC call has triggered rotate(), the
\* retried contract call is sent through the endpoint of the credential
\* that is current after the rotation.
C34_RetryUsesNewEndpoint ==
    (rpc.state = "awaiting" /\ rpc.attempts > 1)
        => rpc.sent_to = GetCurrentRpcUrl(key_manager)

\* C35: after any sequence of initialize() and rotate_key() on the shared
\* key manager, a second initialize() with another pool size included, the
\* current index is at least 0 and below the size of the (non-empty) pool.
C35_IndexInsidePool ==
    key_manager.infura_keys # <<>>
        => key_manager.current_key_index \in 0..(Len(key_manager.infura_keys) - 1)

\* C39: rotate_key() and get_current_key() on an empty pool raise an error
\* and leave the current index and the last rotation as they were.
C39_EmptyPoolRaisesAndKeepsState ==
    (/\ key_call.valid
     /\ key_call.op \in {"rotate_key", "get_current_key"}
     /\ key_call.before.infura_keys = <<>>)
        => /\ key_call.raised # ""
           /\ key_call.after.current_key_index = key_call.before.current_key_index
           /\ key_call.after.last_key_rotation = key_call.before.last_key_rotation

C39_Witness ==
    /\ key_call.valid
    /\ key_call.op = "rotate_key"
    /\ key_call.before.infura_keys = <<>>
    /\ key_call.before.current_key_index = 2
    /\ key_call.before.last_key_rotation < time_now
    /\ key_call.raised = "RuntimeError"

\* C36: each provider fetch raises total_calls of its endpoint and the
\* global call counter by exactly one, whatever the outcome (a 200 answer
\* whose body is not JSON included).
C36_OneFetchOneCall ==
    last_call.valid =>
        /\ StatsOf(calls_by_endpoint, last_call.endpoint).total_calls
              = last_call.before.total_calls + 1
        /\ call_counter = last_call.counter_before + 1

\* C37: for every endpoint, total_calls = success_count +
\* empty_response_count + error_count + rate_limit_count, after any
\* interleaving of provider calls and classification passes.
C37_TotalIsSumOfClasses ==
    \A e \in DOMAIN calls_by_endpoint :
        calls_by_endpoint[e].total_calls
            = calls_by_endpoint[e].success_count
              + calls_by_endpoint[e].empty_response_count
              + calls_by_endpoint[e].error_count
              + calls_by_endpoint[e].rate_limit_count

\* C38: every token that stays in the active table is eventually
\* rescanned: a sweep starts exactly one pass for each token that was
\* active when it began, in the order selected, and ends only when it has
\* gone through them all; and while the loop runs a sweep comes due again,
\* so an active token gets a rescan pass unless it leaves the active table
\* first (or the pass budget of the model cannot cover the sweep).
RescanStarted(t) == \E p \in scanning : p.token = t /\ p.src = "rescan"

InSweep == pc \in {"sweep", "sweep_wait"}

SweepBudget ==
    clock + (IF InSweep THEN Len(rescan_tokens) ELSE Cardinality(ActiveTokens))
        <= MaxPasses

SweepStep ==
    /\ (pc = "top" /\ pc' = "sweep") =>
          /\ {rescan_tokens'[i] : i \in DOMAIN rescan_tokens'} = ActiveTokens
          /\ Len(rescan_tokens') = Cardinality(ActiveTokens)
    /\ \A p \in scanning' \ scanning :
          p.src = "rescan" =>
             /\ pc = "sweep"
             /\ rescan_tokens # <<>>
             /\ p.token = Head(rescan_tokens)
             /\ rescan_tokens' = Tail(rescan_tokens)
             /\ scanning' = scanning \cup {p}
    /\ (InSweep /\ rescan_tokens' # rescan_tokens) =>
          \E p \in scanning' \ scanning : p.src = "rescan"
    /\ (InSweep /\ ~InSweep') => rescan_tokens = <<>>

TimeOf(text) == 2 * text[1] + text[2]

C40_RescanQueryReturnsEligibleTokens ==
    rescan_query.valid =>
        LET q == rescan_query
            eligible == {t \in DOMAIN manager_records :
                            /\ manager_records[t].honeypot_failures < q.max_failures
                            /\ manager_records[t].total_scans < q.max_scans
                            /\ TimeOf(manager_records[t].scan_timestamp)
                                  <= q.now - q.minutes_old}
        IN  IF q.failed THEN q.returned = <<>>
            ELSE /\ {q.returned[i].address : i \in DOMAIN q.returned} = eligible
                 /\ Len(q.returned) = Cardinality(eligible)
                 /\ \A i \in DOMAIN q.returned :
                       /\ q.returned[i].pair = PairOf(q.returned[i].address)
                       /\ q.returned[i].total_scans
                             = manager_records[q.returned[i].address].total_scans
                       /\ q.returned[i].failures
                             = manager_records[q.returned[i].address].honeypot_failures

C40_Witness ==
    /\ rescan_query.valid
    /\ ~rescan_query.failed
    /\ Len(rescan_query.returned) = 1
    /\ Cardinality(DOMAIN manager_records) = 2
    /\ \E t \in DOMAIN manager_records :
          /\ manager_records[t].honeypot_failures = rescan_query.max_failures
          /\ manager_records[t].total_scans < rescan_query.max_scans
          /\ TimeOf(manager_records[t].scan_timestamp)
                <= rescan_query.now - rescan_query.minutes_old
====
